---- MODULE Spec2Model ----
(***************************************************************************)
(* Research-enhanced roadmap generator of skillforge-api:                  *)
(*   researchAgentService.js  performWebSearch, getCuratedSources,         *)
(*                            scrapeAndSummarize, summarizeContent,        *)
(*                            generateComprehensiveRoadmap and helpers     *)
(*   llmClient.js             chat, extractJSON                            *)
(*   roadmapLlmService.js     generateRoadmapWithLLM                       *)
(*   routes/research.js       POST /roadmap, GET /search, POST /scrape     *)
(*                                                                         *)
(***************************************************************************)
EXTENDS Integers, Sequences, FiniteSets, TLC

VARIABLES
    srch,       \* the performWebSearch call made through GET /search
    scrapes,    \* the scrapeAndSummarize calls made so far, oldest first
    pc,         \* where the roadmap generation run stands
    req,        \* the run's caller and inputs
    web,        \* its search response, search results and scrape tasks
    chats,      \* what the completion service did at each chat call
    res,        \* what generateComprehensiveRoadmap threw and returned
    svc,        \* the outcome of generateRoadmapWithLLM
    store,      \* the Roadmap collection: the document of the user
    rank,       \* the arrays handed to rankResources and what its calls returned
    db,         \* the Roadmap collection: the documents of one user
    runs,       \* the runs that write or update that user's roadmap
    rq,         \* one request to /api/research and how far its handling got
    px,         \* one call of extractJSON and how far it got
    ord,        \* one fan-out of scrapes: the order they completed in, the ranking
    bank        \* the SkillMemoryBank collection and the updateMemoryFromScore calls

vars == <<srch, scrapes, pc, req, web, chats, res, svc, store, rank, db, runs, rq, px, ord, bank>>
genVars == <<pc, req, web, chats, res, svc, store>>
storeVars == <<db, runs>>
lateVars == <<ord, bank>>
auxVars == <<rank, storeVars, rq, px, lateVars>>

(***************************************************************************)
(* Bounds of the model.                                                    *)
(***************************************************************************)
\* largest maxResults / limit a search is called with
MaxLimit == 4
\* largest number of RelatedTopics entries in a live search response
MaxRelated == 3
\* number of scrapeAndSummarize calls followed
MaxScrapeCalls == 2
\* number of runs on one user's roadmap, concurrent or in sequence
MaxRuns == 2

(***************************************************************************)
(* Strings.  TLC evaluates Len, \o and SubSeq on strings, so a string is   *)
(* the string itself and the String methods are computed on it.            *)
(***************************************************************************)
None == "none"

\* String.prototype.toLowerCase on one character
LowerChar(c) ==
    CASE c = "A" -> "a" [] c = "B" -> "b" [] c = "C" -> "c" [] c = "D" -> "d"
      [] c = "E" -> "e" [] c = "F" -> "f" [] c = "G" -> "g" [] c = "H" -> "h"
      [] c = "I" -> "i" [] c = "J" -> "j" [] c = "K" -> "k" [] c = "L" -> "l"
      [] c = "M" -> "m" [] c = "N" -> "n" [] c = "O" -> "o" [] c = "P" -> "p"
      [] c = "Q" -> "q" [] c = "R" -> "r" [] c = "S" -> "s" [] c = "T" -> "t"
      [] c = "U" -> "u" [] c = "V" -> "v" [] c = "W" -> "w" [] c = "X" -> "x"
      [] c = "Y" -> "y" [] c = "Z" -> "z"
      [] OTHER -> c

RECURSIVE toLowerCase(_)
toLowerCase(s) ==
    IF Len(s) = 0 THEN ""
    ELSE LowerChar(SubSeq(s, 1, 1)) \o toLowerCase(SubSeq(s, 2, Len(s)))

\* String.prototype.includes
includes(s, sub) ==
    \E i \in 0..(Len(s) - Len(sub)) : SubSeq(s, i + 1, i + Len(sub)) = sub

\* Array.prototype.slice(from, to), 0-based, to exclusive, for 0 <= from
slice(a, from, to) ==
    LET hi == IF to < 0 THEN Len(a) + to ELSE to
        top == IF hi > Len(a) THEN Len(a) ELSE hi
    IN  IF top <= from THEN << >> ELSE SubSeq(a, from + 1, top)

(***************************************************************************)
(* Queries: non-empty strings, some holding a curated keyword in another   *)
(* case, one holding two, one holding none.                                *)
(***************************************************************************)
Queries == {"JS", "python", "Learn React", "Go", "js react"}

\* the keywords getCuratedSources looks for
CuratedKeywords ==
    {"javascript", "js", "python", "data science", "machine learning", "react",
     "frontend", "leadership", "management"}

(***************************************************************************)
(* SearchResult: {title, url, source, relevanceScore}.  A score is kept in  *)
(* thousandths: 950 is the double 0.95, and a last digit 9 or 1 is the     *)
(* double just below or above the decimal (799 is 0.7999999999999999).     *)
(* origin records which branch produced the entry.                         *)
(***************************************************************************)
Entry(t, u, s, r, o) ==
    [title |-> t, url |-> u, source |-> s, relevanceScore |-> r, origin |-> o]

CuratedJs ==
    << Entry("MDN JavaScript Guide",
             "https://developer.mozilla.org/en-US/docs/Web/JavaScript/Guide",
             "MDN", 950, "curated"),
       Entry("JavaScript.info Modern Tutorial", "https://javascript.info/",
             "JavaScript.info", 900, "curated") >>

CuratedPython ==
    << Entry("Python Official Tutorial", "https://docs.python.org/3/tutorial/",
             "Python.org", 950, "curated"),
       Entry("Real Python Learning Path", "https://realpython.com/learning-paths/",
             "Real Python", 900, "curated") >>

CuratedData ==
    << Entry("Coursera Data Science Specialization",
             "https://www.coursera.org/specializations/jhu-data-science",
             "Coursera", 900, "curated"),
       Entry("Kaggle Learn", "https://www.kaggle.com/learn", "Kaggle", 850, "curated") >>

CuratedReact ==
    << Entry("React Official Documentation", "https://react.dev/learn",
             "React.dev", 950, "curated"),
       Entry("Frontend Masters Learning Paths", "https://frontendmasters.com/learn/",
             "Frontend Masters", 850, "curated") >>

CuratedLeadership ==
    << Entry("Harvard Business Review Leadership", "https://hbr.org/topic/leadership",
             "Harvard Business Review", 900, "curated"),
       Entry("LinkedIn Learning Leadership Courses",
             "https://www.linkedin.com/learning/topics/leadership",
             "LinkedIn Learning", 800, "curated") >>

\* getCuratedSources(query): the entries of every keyword group the
\* lower-cased query contains, in table order
getCuratedSources(query) ==
    LET lowerQuery == toLowerCase(query)
    IN  (IF includes(lowerQuery, "javascript") \/ includes(lowerQuery, "js")
         THEN CuratedJs ELSE << >>)
        \o (IF includes(lowerQuery, "python") THEN CuratedPython ELSE << >>)
        \o (IF includes(lowerQuery, "data science")
               \/ includes(lowerQuery, "machine learning")
            THEN CuratedData ELSE << >>)
        \o (IF includes(lowerQuery, "react") \/ includes(lowerQuery, "frontend")
            THEN CuratedReact ELSE << >>)
        \o (IF includes(lowerQuery, "leadership") \/ includes(lowerQuery, "management")
            THEN CuratedLeadership ELSE << >>)

(***************************************************************************)
(* The live search response.  kind "error": the request failed or timed    *)
(* out (axios rejects); kind "nodata": a 2xx response whose body is not an *)
(* object (reading data.AbstractText throws); kind "data": abstract tells  *)
(* whether AbstractText and AbstractURL are both present, related[i]       *)
(* whether RelatedTopics[i] has both FirstURL and Text.                    *)
(***************************************************************************)
BoolSeqs(n) == UNION {[1..k -> BOOLEAN] : k \in 0..n}

LiveResponses ==
    {[kind |-> "error", abstract |-> FALSE, related |-> << >>],
     [kind |-> "nodata", abstract |-> FALSE, related |-> << >>]}
    \cup {[kind |-> "data", abstract |-> a, related |-> r] :
             a \in BOOLEAN, r \in BoolSeqs(MaxRelated)}

LiveAbstract == Entry("Heading", "https://live.example/abstract", "DuckDuckGo", 900, "live")

LiveUrl(i) ==
    IF i = 2 THEN "https://github.com/topic2"
    ELSE "https://live.example/topic" \o ToString(i)

LiveTopic(i) == Entry("Topic", LiveUrl(i), "Wikipedia", 700, "live")

\* the forEach over RelatedTopics.slice(0, n): usable topics, in order
RECURSIVE RelatedEntries(_, _, _)
RelatedEntries(related, i, n) ==
    IF i > n \/ i > Len(related) THEN << >>
    ELSE (IF related[i] THEN <<LiveTopic(i)>> ELSE << >>)
         \o RelatedEntries(related, i + 1, n)

\* the results array after the abstract and related-topics blocks
LiveEntries(live, maxResults) ==
    LET abs == IF live.abstract THEN <<LiveAbstract>> ELSE << >>
    IN  abs \o RelatedEntries(live.related, 1, maxResults - Len(abs))

\* the catch branch of performWebSearch
WebSearchCatch(query, maxResults) == getCuratedSources(query)

\* the top-up of performWebSearch done whatever the number of live results
WebSearchTopUpAlways(results, query, maxResults) ==
    results \o slice(getCuratedSources(query), 0, maxResults - Len(results))

\* lines 60-64: the curated top-up when fewer than 3 live results
WebSearchTopUp(results, query, maxResults) ==
    IF Len(results) < 3
    THEN results \o slice(getCuratedSources(query), 0, maxResults - Len(results))
    ELSE results

\* performWebSearch whose catch branch rethrows
performWebSearchRethrow(query, maxResults, live) ==
    IF live.kind # "data"
    THEN [outcome |-> "rejected", results |-> << >>]
    ELSE [outcome |-> "resolved",
          results |-> slice(WebSearchTopUp(LiveEntries(live, maxResults), query, maxResults),
                            0, maxResults)]

\* performWebSearch(query, maxResults) given what the search API answers
performWebSearch(query, maxResults, live) ==
    IF live.kind # "data"
    THEN [outcome |-> "resolved", results |-> WebSearchCatch(query, maxResults)]
    ELSE [outcome |-> "resolved",
          results |-> slice(WebSearchTopUp(LiveEntries(live, maxResults), query, maxResults),
                            0, maxResults)]

(***************************************************************************)
(* llmClient.js: chat.  The completion service is down (the request        *)
(* rejects), answers a non-2xx status, or answers 2xx with or without a    *)
(* message content.                                                        *)
(***************************************************************************)
LlmDown == [status |-> "down", content |-> ""]
LlmHttpError == [status |-> "error", content |-> ""]
LlmOk(text) == [status |-> "ok", content |-> text]

Threw == [kind |-> "throws", text |-> ""]
Reply(t) == [kind |-> "reply", text |-> t]

\* chat(messages) -> chatWithOpenRouter(messages): throws unless the
\* service answered 2xx; a missing content becomes ''
chat(llm) == IF llm.status = "ok" THEN Reply(llm.content) ELSE Threw

\* String.prototype.trim (spaces)
RECURSIVE trimStart(_)
trimStart(s) ==
    IF Len(s) > 0 /\ SubSeq(s, 1, 1) = " " THEN trimStart(SubSeq(s, 2, Len(s))) ELSE s

RECURSIVE trimEnd(_)
trimEnd(s) ==
    IF Len(s) > 0 /\ SubSeq(s, Len(s), Len(s)) = " "
    THEN trimEnd(SubSeq(s, 1, Len(s) - 1)) ELSE s

trim(s) == trimEnd(trimStart(s))

(***************************************************************************)
(* scrapeAndSummarize.  A fetched page is described by what cheerio        *)
(* extracts from it: whether loading it throws, the length of the trimmed, *)
(* whitespace-collapsed text of the first semantic container (0: none) and *)
(* of body, the number of space-separated pieces of the kept text, and the *)
(* number of h1-h4 headings with a text shorter than 200 characters.       *)
(* A text is kept as its length.                                           *)
(***************************************************************************)
MinContainerText == 100
ContentCap == 3000
ContentKept == 1000
MinSummarizable == 50
HeadersKept == 10

Page(p, m, b, w, h) == [parse |-> p, main |-> m, body |-> b, words |-> w, headers |-> h]

PageBroken == Page("throws", 0, 0, 0, 0)
PageEmpty  == Page("ok", 0, 0, 1, 0)
PageShort  == Page("ok", 0, 40, 8, 1)
PageArticle == Page("ok", 1500, 2200, 250, 4)
PageLong   == Page("ok", 90, 5000, 600, 12)

Pages == {PageBroken, PageEmpty, PageShort, PageArticle, PageLong}

SummaryReplies ==
    {"", "  ", "Short.", "Covers the fundamentals with worked examples.",
     "The guide walks through the core concepts step by step, with exercises after each part and a project."}

Llms == {LlmDown, LlmHttpError} \cup {LlmOk(t) : t \in SummaryReplies}

Min(a, b) == IF a < b THEN a ELSE b

\* lines 214-230: the first container whose text is longer than 100, else
\* body; cut to 3000 characters
ExtractContent(page) ==
    Min(IF page.main > MinContainerText THEN page.main ELSE page.body, ContentCap)

\* summarizeContent(content, title), content given by its length
summarizeContent(contentLen, title, llm) ==
    IF contentLen < MinSummarizable
    THEN title \o ": Content not available for summary."
    ELSE IF chat(llm).kind = "throws"
         THEN title \o ": Summary generation failed."
         ELSE IF trim(chat(llm).text) # ""
              THEN trim(chat(llm).text)
              ELSE title \o ": Summary not available."

ScrapedContent(o, u, t, c, s, h, w, e) ==
    [outcome |-> o, url |-> u, title |-> t, content |-> c, summary |-> s,
     headers |-> h, wordCount |-> w, error |-> e]

\* a catch branch that names the url instead of the title
ScrapeCatchUrl(url, title, message) ==
    ScrapedContent("resolved", url, title, 0,
                   "Unable to scrape content from " \o url
                       \o ". This resource may require manual review.",
                   0, 0, message)

\* the catch branch of scrapeAndSummarize, lines 257-269
ScrapeCatch(url, title, message) ==
    ScrapedContent("resolved", url, title, 0,
                   "Unable to scrape content from " \o title
                       \o ". This resource may require manual review.",
                   0, 0, message)

\* scrapeAndSummarize catching the fetch error only
scrapeAndSummarizeParseEscapes(url, title, fetch, page, llm) ==
    IF fetch # "ok" THEN ScrapeCatch(url, title, "Network Error")
    ELSE IF page.parse # "ok"
    THEN ScrapedContent("rejected", url, title, 0, "", 0, 0, "Parse Error")
    ELSE LET len == ExtractContent(page)
         IN  ScrapedContent("resolved", url, title, Min(len, ContentKept),
                            summarizeContent(len, title, llm),
                            Min(page.headers, HeadersKept),
                            IF len = 0 THEN 1 ELSE page.words, None)

\* scrapeAndSummarize(url, title), given what the fetch, the page and the
\* completion service do
scrapeAndSummarize(url, title, fetch, page, llm) ==
    IF fetch # "ok" THEN ScrapeCatch(url, title, "Network Error")
    ELSE IF page.parse # "ok" THEN ScrapeCatch(url, title, "Parse Error")
    ELSE LET len == ExtractContent(page)
         IN  ScrapedContent("resolved", url, title, Min(len, ContentKept),
                            summarizeContent(len, title, llm),
                            Min(page.headers, HeadersKept),
                            IF len = 0 THEN 1 ELSE page.words, None)

(***************************************************************************)
(* llmClient.js: extractJSON, on the replies the completion service gives  *)
(* to a roadmap prompt.  A parsed value is null, or an object with or      *)
(* without a steps array.                                                  *)
(***************************************************************************)
Step(w, d, t, ty, df) ==
    [week |-> w, day |-> d, dayGiven |-> TRUE, title |-> t, type |-> ty,
     difficulty |-> df]

\* a step object without a day key
StepNoDay(w, t, ty, df) ==
    [week |-> w, day |-> 0, dayGiven |-> FALSE, title |-> t, type |-> ty,
     difficulty |-> df]

DocNull == [kind |-> "null", hasSteps |-> FALSE, steps |-> << >>]
DocObject(has, st) == [kind |-> "object", hasSteps |-> has, steps |-> st]

ReplyEmpty == ""
ReplyProse == "Sorry, I cannot help with that."
ReplyNullText == "null"
ReplyEmptyObject == "{}"
ReplyEmptySteps == "{\"steps\":[]}"
ReplyOneStep ==
    "{\"steps\":[{\"week\":1,\"day\":1,\"title\":\"Basics\",\"type\":\"practice\",\"difficulty\":\"beginner\"}]}"

\* a two-week plan of 8 steps, each numbered by week and day of the week
ReplyWeeklyPlan ==
    "{\"steps\":[{\"week\":1,\"day\":1,\"title\":\"Part 1\",\"type\":\"practice\",\"difficulty\":\"beginner\"},{\"week\":1,\"day\":2,\"title\":\"Part 2\",\"type\":\"practice\",\"difficulty\":\"beginner\"},{\"week\":1,\"day\":3,\"title\":\"Part 3\",\"type\":\"practice\",\"difficulty\":\"beginner\"},{\"week\":1,\"day\":4,\"title\":\"Part 4\",\"type\":\"practice\",\"difficulty\":\"beginner\"},{\"week\":2,\"day\":1,\"title\":\"Part 5\",\"type\":\"practice\",\"difficulty\":\"beginner\"},{\"week\":2,\"day\":2,\"title\":\"Part 6\",\"type\":\"practice\",\"difficulty\":\"beginner\"},{\"week\":2,\"day\":3,\"title\":\"Part 7\",\"type\":\"practice\",\"difficulty\":\"beginner\"},{\"week\":2,\"day\":4,\"title\":\"Part 8\",\"type\":\"practice\",\"difficulty\":\"beginner\"}]}"

WeeklyPlanDays == <<1, 2, 3, 4, 1, 2, 3, 4>>

\* 8 steps without a day key
ReplyNoDays ==
    "{\"steps\":[{\"week\":1,\"title\":\"Part 1\",\"type\":\"practice\",\"difficulty\":\"beginner\"},{\"week\":1,\"title\":\"Part 2\",\"type\":\"practice\",\"difficulty\":\"beginner\"},{\"week\":1,\"title\":\"Part 3\",\"type\":\"practice\",\"difficulty\":\"beginner\"},{\"week\":1,\"title\":\"Part 4\",\"type\":\"practice\",\"difficulty\":\"beginner\"},{\"week\":1,\"title\":\"Part 5\",\"type\":\"practice\",\"difficulty\":\"beginner\"},{\"week\":1,\"title\":\"Part 6\",\"type\":\"practice\",\"difficulty\":\"beginner\"},{\"week\":1,\"title\":\"Part 7\",\"type\":\"practice\",\"difficulty\":\"beginner\"},{\"week\":1,\"title\":\"Part 8\",\"type\":\"practice\",\"difficulty\":\"beginner\"}]}"

RoadmapReplies ==
    {ReplyEmpty, ReplyProse, ReplyNullText, ReplyEmptyObject, ReplyEmptySteps,
     ReplyOneStep, ReplyWeeklyPlan, ReplyNoDays}

\* extractJSON(text): '' is null; well-formed JSON is what JSON.parse gives
\* (the text "null" gives null); prose that no repair tier turns into JSON
\* is null
extractJSON(text) ==
    CASE text = ReplyEmpty -> DocNull
      [] text = ReplyProse -> DocNull
      [] text = ReplyNullText -> DocNull
      [] text = ReplyEmptyObject -> DocObject(FALSE, << >>)
      [] text = ReplyEmptySteps -> DocObject(TRUE, << >>)
      [] text = ReplyOneStep ->
            DocObject(TRUE, <<Step(1, 1, "Basics", "practice", "beginner")>>)
      [] text = ReplyWeeklyPlan ->
            DocObject(TRUE, [i \in 1..8 |->
                Step((i + 3) \div 4, WeeklyPlanDays[i], "Part " \o ToString(i),
                     "practice", "beginner")])
      [] text = ReplyNoDays ->
            DocObject(TRUE, [i \in 1..8 |->
                StepNoDay(1, "Part " \o ToString(i), "practice", "beginner")])
      [] OTHER -> DocNull

\* !value
Falsy(doc) == doc.kind = "null"

\* roadmap.steps?.length || 0, for a roadmap that is not null
StepsLength(doc) == IF doc.kind = "object" /\ doc.hasSteps THEN Len(doc.steps) ELSE 0

(***************************************************************************)
(* rankResources                                                           *)
(***************************************************************************)
WordBoostOver == 500
HeaderBoostOver == 3
SummaryBoostOver == 100
DefaultRelevance == 500
ScoreCap == 1000

\* q + 0.1 and q + 0.2 in double arithmetic
AddTenth(q) ==
    CASE q = 200 -> 301
      [] q = 301 -> 400
      [] q = 700 -> 799
      [] q = 1050 -> 1151
      [] q = 1100 -> 1201
      [] OTHER -> q + 100

AddFifth(q) ==
    CASE q = 100 -> 301
      [] q = 301 -> 500
      [] q = 400 -> 601
      [] q = 700 -> 899
      [] q = 799 -> 1000
      [] q = 999 -> 1200
      [] q = 1151 -> 1350
      [] OTHER -> q + 200

TrustedDomains ==
    {"mozilla.org", "python.org", "react.dev", "angular.io", "coursera.org",
     "edx.org", "khanacademy.org", "freecodecamp.org", "github.com",
     "stackoverflow.com", "medium.com", "harvard.edu", "mit.edu", "stanford.edu"}

NoScrape == ScrapedContent(None, "", "", 0, "", 0, 0, None)

\* scrapedContent.find(content => content.url === url)
RECURSIVE Find(_, _, _)
Find(scrapedContent, url, i) ==
    IF i > Len(scrapedContent) THEN NoScrape
    ELSE IF scrapedContent[i].url = url THEN scrapedContent[i]
    ELSE Find(scrapedContent, url, i + 1)

\* the score left unclamped
QualityScoreUnclamped(result, scraped) ==
    LET q0 == IF result.relevanceScore = 0 THEN DefaultRelevance
              ELSE result.relevanceScore
        q1 == IF scraped # NoScrape /\ scraped.wordCount > WordBoostOver
              THEN AddTenth(q0) ELSE q0
        q2 == IF scraped # NoScrape /\ scraped.headers > HeaderBoostOver
              THEN AddTenth(q1) ELSE q1
        q3 == IF scraped # NoScrape /\ Len(scraped.summary) > SummaryBoostOver
              THEN AddTenth(q2) ELSE q2
    IN  IF \E d \in TrustedDomains : includes(result.url, d)
        THEN AddFifth(q3) ELSE q3

\* the score with the heading boost given from 3 headings on
QualityScoreThreeHeadings(result, scraped) ==
    LET q0 == IF result.relevanceScore = 0 THEN DefaultRelevance
              ELSE result.relevanceScore
        q1 == IF scraped # NoScrape /\ scraped.wordCount > WordBoostOver
              THEN AddTenth(q0) ELSE q0
        q2 == IF scraped # NoScrape /\ scraped.headers >= HeaderBoostOver
              THEN AddTenth(q1) ELSE q1
        q3 == IF scraped # NoScrape /\ Len(scraped.summary) > SummaryBoostOver
              THEN AddTenth(q2) ELSE q2
        q4 == IF \E d \in TrustedDomains : includes(result.url, d)
              THEN AddFifth(q3) ELSE q3
    IN  Min(q4, ScoreCap)

\* lines 382-406
QualityScore(result, scraped) ==
    LET q0 == IF result.relevanceScore = 0 THEN DefaultRelevance
              ELSE result.relevanceScore
        q1 == IF scraped # NoScrape /\ scraped.wordCount > WordBoostOver
              THEN AddTenth(q0) ELSE q0
        q2 == IF scraped # NoScrape /\ scraped.headers > HeaderBoostOver
              THEN AddTenth(q1) ELSE q1
        q3 == IF scraped # NoScrape /\ Len(scraped.summary) > SummaryBoostOver
              THEN AddTenth(q2) ELSE q2
        q4 == IF \E d \in TrustedDomains : includes(result.url, d)
              THEN AddFifth(q3) ELSE q3
    IN  Min(q4, ScoreCap)

RankedResource(result, scraped) ==
    [title |-> result.title, url |-> result.url, source |-> result.source,
     relevanceScore |-> result.relevanceScore, origin |-> result.origin,
     scrapedContent |-> scraped, qualityScore |-> QualityScore(result, scraped)]

\* an insertion that puts the later of two equal scores first
RECURSIVE InsertDescTiesFirst(_, _)
InsertDescTiesFirst(sorted, r) ==
    IF sorted = << >> THEN <<r>>
    ELSE IF r.qualityScore >= sorted[Len(sorted)].qualityScore
         THEN Append(InsertDescTiesFirst(SubSeq(sorted, 1, Len(sorted) - 1), r),
                     sorted[Len(sorted)])
         ELSE Append(sorted, r)

\* resources.sort((a, b) => b.qualityScore - a.qualityScore): stable,
\* descending
RECURSIVE InsertDesc(_, _)
InsertDesc(sorted, r) ==
    IF sorted = << >> THEN <<r>>
    ELSE IF r.qualityScore > sorted[Len(sorted)].qualityScore
         THEN Append(InsertDesc(SubSeq(sorted, 1, Len(sorted) - 1), r),
                     sorted[Len(sorted)])
         ELSE Append(sorted, r)

RECURSIVE SortDesc(_, _)
SortDesc(resources, n) ==
    IF n = 0 THEN << >>
    ELSE InsertDesc(SortDesc(resources, n - 1), resources[n])

rankResources(searchResults, scrapedContent) ==
    SortDesc([i \in 1..Len(searchResults) |->
                 RankedResource(searchResults[i],
                                Find(scrapedContent, searchResults[i].url, 1))],
             Len(searchResults))

\* the search result a ranked resource was spread from
Unranked(r) == Entry(r.title, r.url, r.source, r.relevanceScore, r.origin)

\* a rankResources that scores and sorts the searchResults array itself
rankResourcesEffectInPlace(searchResults, scrapedContent) ==
    LET returned == rankResources(searchResults, scrapedContent)
    IN  [returned |-> returned,
         searchResults |-> [i \in 1..Len(returned) |-> Unranked(returned[i])],
         scrapedContent |-> scrapedContent]

\* one call of rankResources and the two arrays after it: map builds a new
\* array of new objects ({...result}), find reads, and sort reorders the new
\* array, so neither argument nor any element of them is written
rankResourcesEffect(searchResults, scrapedContent) ==
    [returned |-> rankResources(searchResults, scrapedContent),
     searchResults |-> searchResults,
     scrapedContent |-> scrapedContent]

(***************************************************************************)
(* Synthesis: generateRoadmapWithSources and generateFallbackRoadmap.      *)
(* Each answers [threw, doc]: the chat call threw, or the value returned.  *)
(***************************************************************************)
Returned(doc) == [threw |-> FALSE, doc |-> doc]
Thrown == [threw |-> TRUE, doc |-> DocNull]

\* generateRoadmapWithSources: the parsed reply, unvalidated
generateRoadmapWithSources(topic, resources, level, llm) ==
    IF chat(llm).kind = "throws" THEN Thrown
    ELSE Returned(extractJSON(chat(llm).text))

\* lines 520-538: the basic structure
Skeleton(topic, level) ==
    DocObject(TRUE, <<Step(1, 1, "Introduction to " \o topic, "theory", level)>>)

\* generateFallbackRoadmap(topic, options)
generateFallbackRoadmap(topic, level, llm) ==
    IF chat(llm).kind = "throws" THEN Thrown
    ELSE IF Falsy(extractJSON(chat(llm).text)) THEN Returned(Skeleton(topic, level))
    ELSE Returned(extractJSON(chat(llm).text))

(***************************************************************************)
(* A roadmap generation run: POST /api/research/roadmap, or                *)
(* generateRoadmapWithLLM(userId, useResearchAgent) for one user.          *)
(***************************************************************************)
SearchLimit == 8
ScrapeTop == 5
MinSummaryLen == 20
SourcesKept == 10
StepsKept == 7
StoredSources == 5

LlmUnused == [status |-> "unused", content |-> ""]
LiveUnused == [kind |-> "unused", abstract |-> FALSE, related |-> << >>]
WorldUnused == [fetch |-> "unused", page |-> PageBroken, llm |-> LlmUnused]

NoResult ==
    [topic |-> "", level |-> "", roadmap |-> DocNull, sources |-> << >>,
     methodology |-> None, totalSteps |-> 0, warning |-> None]

\* models/Roadmap.js lines 12-18: the paths of roadmapSchema
SchemaPaths == {"userId", "steps", "createdAt", "updatedAt"}

\* the schema is strict (the default: no strict option at line 17), so an
\* update's value for a path that is not in the schema is not written
StrictCast(path, value) == IF path \in SchemaPaths THEN value ELSE None

\* generatedWith and sources are the metadata carried by the update that
\* wrote the document, metadata is what the stored document holds of it
NoRoadmap ==
    [exists |-> FALSE, steps |-> << >>, generatedWith |-> None, sources |-> << >>,
     metadata |-> None]

RankIdle ==
    [given |-> [searchResults |-> << >>, scrapedContent |-> << >>],
     searchResults |-> << >>, scrapedContent |-> << >>,
     calls |-> 0, first |-> << >>, second |-> << >>]

\* a run not started: kind is "llm" (generateRoadmapWithLLM), "seed"
\* (generateRoadmapForUser) or "adaptive" (updateRoadmapForWeakAreas); steps
\* is what the run computed and hands to the store, reads and writes count
\* its operations on the Roadmap collection
RunIdle ==
    [kind |-> None, pc |-> "idle", steps |-> << >>, reads |-> 0, writes |-> 0,
     outcome |-> None]

StoreIdle ==
    /\ db = << >>
    /\ runs = [p \in 1..MaxRuns |-> RunIdle]

NoBody ==
    [topic |-> "", level |-> None, depth |-> None, url |-> "",
     urlsGiven |-> FALSE, urls |-> << >>]

NoCalls == [search |-> 0, scrape |-> 0, summary |-> 0, llm |-> 0]

\* no request: pc is "received", "handler", "scraping" or "responded";
\* errors are the messages the validation chains recorded; calls counts the
\* searches, the scrapes, the summarization chats inside the scrapes and
\* the route's own chats; comparison tells whether the response has one
RqIdle ==
    [route |-> None, body |-> NoBody, pc |-> "idle", errors |-> << >>,
     tasks |-> << >>, calls |-> NoCalls, status |-> 0, success |-> FALSE,
     message |-> None, comparison |-> FALSE]

\* no fan-out under way: searchResults are the results scraped, worlds what
\* each scrape meets, tasks the slots of the settled results, arrived the
\* indexes of the scrapes in the order they completed
OrdIdle ==
    [pc |-> "idle", searchResults |-> << >>, worlds |-> << >>, tasks |-> << >>,
     arrived |-> << >>, ranked |-> << >>, sources |-> << >>]

\* the outcome of the last save: none yet
NoUpdate == [saved |-> FALSE, found |-> FALSE, delta |-> 0, clamped |-> FALSE, fresh |-> 0]

\* no skill memory bank stored, no call made: docs are the banks by user,
\* calls the calls that have loaded a bank and not saved it, made the
\* number of calls so far, last what the last save did: whether it found
\* the topic, the delta it applied, whether the sum was out of range, and
\* the level it gave to a new topic
BankIdle == [docs |-> << >>, calls |-> << >>, made |-> 0, last |-> NoUpdate]

LateIdle ==
    /\ ord = OrdIdle
    /\ bank = BankIdle

\* no call of extractJSON: pc is "called", "direct", "loop", "eval" or
\* "returned"; content is jsonContent; tier is the method at work; cleaned
\* and lastIndex are the text and the regular expression's position in the
\* array loop of cleanupJSON; out is the value returned
PxIdle ==
    [text |-> "", pc |-> "idle", content |-> "", tier |-> "none", cleaned |-> "",
     lastIndex |-> 0, out |-> [value |-> "null", tier |-> "none"]]

AuxIdle ==
    /\ rank = RankIdle
    /\ StoreIdle
    /\ rq = RqIdle
    /\ px = PxIdle
    /\ LateIdle

GenIdle ==
    /\ pc = "idle"
    /\ req = [caller |-> None, topic |-> "", level |-> "", useResearchAgent |-> FALSE]
    /\ web = [live |-> LiveUnused, searchResults |-> << >>, tasks |-> << >>]
    /\ chats = [primary |-> LlmUnused, fallback |-> LlmUnused, basic |-> LlmUnused]
    /\ res = [threw |-> None, outcome |-> None, result |-> NoResult, http |-> 0]
    /\ svc = [outcome |-> None, upserts |-> 0, dbErrors |-> 0]
    /\ store = NoRoadmap

(***************************************************************************)
(* GET /api/research/search: one validated request (q a non-empty string,  *)
(* limit in 1..MaxLimit) and what the search API answers to it.            *)
(***************************************************************************)
SrchIdle ==
    [query |-> "", maxResults |-> 0,
     live |-> [kind |-> "error", abstract |-> FALSE, related |-> << >>],
     called |-> FALSE, outcome |-> None, results |-> << >>]

SearchInputs ==
    [query : Queries, maxResults : 1..MaxLimit, live : LiveResponses]

\* router.get('/search'): await performWebSearch(query, parseInt(limit))
SearchRoute ==
    /\ srch.called = FALSE
    /\ LET r == performWebSearch(srch.query, srch.maxResults, srch.live)
       IN  srch' = [srch EXCEPT !.called = TRUE, !.outcome = r.outcome,
                                !.results = r.results]
    /\ UNCHANGED <<auxVars, scrapes, genVars>>

InitSearch ==
    /\ \E in \in SearchInputs :
          srch = [query |-> in.query, maxResults |-> in.maxResults, live |-> in.live,
                  called |-> FALSE, outcome |-> None, results |-> << >>]
    /\ scrapes = << >>
    /\ GenIdle
    /\ AuxIdle

NextSearch == SearchRoute

SpecSearch == InitSearch /\ [][NextSearch]_vars

\* what the live provider yielded for the call in srch
SrchLive == IF srch.live.kind = "data"
            THEN LiveEntries(srch.live, srch.maxResults)
            ELSE << >>
SrchErrored == srch.live.kind # "data"
SrchHasKeyword == \E kw \in CuratedKeywords : includes(toLowerCase(srch.query), kw)
SrchHasCurated == \E i \in 1..Len(srch.results) : srch.results[i].origin = "curated"

\* C6: performWebSearch resolves to an array and never rejects, whatever the
\* search request does; and when the live provider yields no usable entry,
\* a query containing a curated keyword (in any case) gets at least one
\* curated entry.
C6_SearchNeverRejectsAndFloor ==
    srch.called =>
        /\ srch.outcome = "resolved"
        /\ (Len(SrchLive) = 0 /\ SrchHasKeyword) => SrchHasCurated

C6_Witness ==
    /\ srch.called
    /\ srch.live.kind = "data"
    /\ Len(SrchLive) = 0
    /\ Len(srch.live.related) > 0
    /\ srch.query = "JS"
    /\ SrchHasCurated

\* C7 (as claimed): performWebSearch never returns more than maxResults
\* entries, on every path.
C7_AtMostMaxResults ==
    srch.called => Len(srch.results) <= srch.maxResults

\* C8 (as claimed): curated entries appear exactly when the live request
\* errored or produced fewer than 3 results; with 3 or more the result is
\* live only; with fewer the live entries precede the curated ones.
C8_CuratedExactlyWhenShort ==
    srch.called =>
        /\ SrchHasCurated <=> (SrchErrored \/ Len(SrchLive) < 3)
        /\ Len(SrchLive) >= 3 =>
              \A i \in 1..Len(srch.results) : srch.results[i].origin = "live"
        /\ \A i, j \in 1..Len(srch.results) :
              (i < j /\ srch.results[i].origin = "curated")
                  => srch.results[j].origin = "curated"

\* C8 (amended): curated entries appear exactly when the query contains a
\* curated keyword and either the live request errored, or it produced
\* fewer than 3 and fewer than maxResults results; with 3 or more live
\* results the result is live only; live entries precede curated ones.
C8_CuratedWhenShortAndMatching ==
    srch.called =>
        /\ SrchHasCurated <=>
              /\ SrchHasKeyword
              /\ \/ SrchErrored
                 \/ (Len(SrchLive) < 3 /\ Len(SrchLive) < srch.maxResults)
        /\ Len(SrchLive) >= 3 =>
              \A i \in 1..Len(srch.results) : srch.results[i].origin = "live"
        /\ \A i, j \in 1..Len(srch.results) :
              (i < j /\ srch.results[i].origin = "curated")
                  => srch.results[j].origin = "curated"

C8_Witness ==
    /\ srch.called
    /\ ~SrchErrored
    /\ Len(SrchLive) = 2
    /\ Len(srch.results) = 4
    /\ srch.results[2].origin = "live"
    /\ srch.results[3].origin = "curated"

(***************************************************************************)
(* POST /api/research/scrape, and direct calls of scrapeAndSummarize with  *)
(* a string that is no URL.  A malformed URL or an unreachable host makes  *)
(* the fetch fail.                                                         *)
(***************************************************************************)
ScrapeUrls == {"https://react.dev/learn", "not a url"}
ScrapeTitles == {"X", "Scraped Content"}

ScrapeWorlds ==
    {[fetch |-> "error", page |-> PageBroken, llm |-> LlmDown],
     [fetch |-> "ok", page |-> PageBroken, llm |-> LlmDown]}
    \cup {[fetch |-> "ok", page |-> p, llm |-> l] : p \in Pages \ {PageBroken}, l \in Llms}

ScrapeInputs ==
    {in \in [url : ScrapeUrls, title : ScrapeTitles, world : ScrapeWorlds] :
        in.url = "not a url" => in.world.fetch = "error"}

ScrapeCall(in) ==
    [in |-> in,
     out |-> scrapeAndSummarize(in.url, in.title, in.world.fetch, in.world.page,
                                in.world.llm)]

\* one call of scrapeAndSummarize
ScrapeRoute(in) ==
    /\ Len(scrapes) < MaxScrapeCalls
    /\ scrapes' = Append(scrapes, ScrapeCall(in))
    /\ UNCHANGED <<auxVars, srch, genVars>>

InitScrape ==
    /\ srch = SrchIdle
    /\ scrapes = << >>
    /\ GenIdle
    /\ AuxIdle

NextScrape == \E in \in ScrapeInputs : ScrapeRoute(in)

SpecScrape == InitScrape /\ [][NextScrape]_vars

ScrFailed(c) == c.in.world.fetch # "ok" \/ c.in.world.page.parse # "ok"

\* C9: for every url and title, unreachable hosts, malformed URLs, pages
\* with no body text and a failing summarization call included,
\* scrapeAndSummarize resolves to a ScrapedContent record, with error set
\* when the fetch or the parse failed, and never rejects.
C9_ScrapeNeverRejects ==
    \A i \in 1..Len(scrapes) :
        LET c == scrapes[i]
        IN  /\ c.out.outcome = "resolved"
            /\ c.out.url = c.in.url /\ c.out.title = c.in.title
            /\ ScrFailed(c) => c.out.error # None

C9_Witness ==
    /\ Len(scrapes) = 2
    /\ scrapes[1].in.world.fetch = "ok"
    /\ scrapes[1].in.world.page = PageEmpty
    /\ scrapes[1].out.outcome = "resolved"
    /\ scrapes[2].in.world.page = PageBroken
    /\ scrapes[2].in.world.fetch = "ok"
    /\ scrapes[2].out.outcome = "resolved"
    /\ scrapes[2].out.error # None

\* C10: when the fetch or the parse fails, the record has error set, empty
\* content, no headers, wordCount 0 and a placeholder summary that contains
\* the title and depends on the title only: two failing calls with the same
\* title return the same summary.
C10_FailureRecord ==
    /\ \A i \in 1..Len(scrapes) :
          LET c == scrapes[i]
          IN  ScrFailed(c) =>
                  /\ c.out.error # None
                  /\ c.out.content = 0
                  /\ c.out.headers = 0
                  /\ c.out.wordCount = 0
                  /\ includes(c.out.summary, c.in.title)
    /\ \A i, j \in 1..Len(scrapes) :
          (ScrFailed(scrapes[i]) /\ ScrFailed(scrapes[j])
           /\ scrapes[i].in.title = scrapes[j].in.title)
              => scrapes[i].out.summary = scrapes[j].out.summary

C10_Witness ==
    /\ Len(scrapes) = 2
    /\ scrapes[1].in.url = "not a url"
    /\ scrapes[1].in.title = "X"
    /\ scrapes[1].out.content = 0
    /\ scrapes[2].in.url = "https://react.dev/learn"
    /\ scrapes[2].in.title = "X"
    /\ scrapes[2].in.world.fetch = "ok"
    /\ scrapes[2].in.world.page = PageBroken
    /\ scrapes[2].out.error = "Parse Error"
    /\ scrapes[2].out.summary = scrapes[1].out.summary

(***************************************************************************)
(* generateComprehensiveRoadmap, step by step (each await is a step), for  *)
(* its two callers.                                                        *)
(***************************************************************************)
Topics == {"Learn React", "Go"}
Levels == {"beginner", "advanced"}

\* what the search API does during a run
GenLive ==
    {[kind |-> "error", abstract |-> FALSE, related |-> << >>],
     [kind |-> "data", abstract |-> FALSE, related |-> << >>],
     [kind |-> "data", abstract |-> TRUE, related |-> <<TRUE, FALSE, TRUE>>],
     [kind |-> "data", abstract |-> TRUE,
      related |-> <<TRUE, TRUE, TRUE, TRUE, TRUE, TRUE>>]}

\* what one scrape of a run meets: an unreachable page, a page summarized
\* well, a page whose summary is too short to be kept
GenWorlds ==
    {[fetch |-> "error", page |-> PageBroken, llm |-> LlmDown],
     [fetch |-> "ok", page |-> PageArticle,
      llm |-> LlmOk("Covers the fundamentals with worked examples.")],
     [fetch |-> "ok", page |-> PageArticle, llm |-> LlmOk("Short.")]}

\* what the completion service does at a roadmap prompt
GenLlms == {LlmDown} \cup {LlmOk(t) : t \in RoadmapReplies}

\* router.post('/roadmap'): a validated request starts the generation
RoadmapRoute(topic, level) ==
    /\ pc = "idle"
    /\ req' = [caller |-> "route", topic |-> topic, level |-> level,
               useResearchAgent |-> TRUE]
    /\ pc' = "searching"
    /\ UNCHANGED <<auxVars, srch, scrapes, web, chats, res, svc, store>>

\* generateRoadmapWithLLM lines 20-27: the profile is read; with the
\* research agent asked for and a skill in the profile the generation
\* starts, else the basic generation
ServiceStart(skill, level, useResearchAgent) ==
    /\ pc = "idle"
    /\ req' = [caller |-> "service", topic |-> skill, level |-> level,
               useResearchAgent |-> useResearchAgent]
    /\ pc' = IF useResearchAgent /\ skill # "" THEN "searching" ELSE "basic"
    /\ UNCHANGED <<auxVars, srch, scrapes, web, chats, res, svc, store>>

PendingTask == [settled |-> FALSE, world |-> WorldUnused, value |-> NoScrape]

\* lines 317-323: the search resolves and the scrapes of the first 5
\* results are issued; a rejected search goes to the catch branch
SearchStep(live) ==
    /\ pc = "searching"
    /\ LET r == performWebSearch(req.topic, SearchLimit, live)
       IN  IF r.outcome = "resolved"
           THEN /\ web' = [live |-> live, searchResults |-> r.results,
                           tasks |-> [i \in 1..Len(slice(r.results, 0, ScrapeTop))
                                         |-> PendingTask]]
                /\ pc' = "scraping"
                /\ UNCHANGED res
           ELSE /\ web' = [web EXCEPT !.live = live]
                /\ res' = [res EXCEPT !.threw = "search"]
                /\ pc' = "fallback"
    /\ UNCHANGED <<auxVars, srch, scrapes, req, chats, svc, store>>

\* one of the concurrent scrapeAndSummarize calls settles
ScrapeSettle(i, world) ==
    /\ pc = "scraping"
    /\ i \in 1..Len(web.tasks)
    /\ ~web.tasks[i].settled
    /\ web' = [web EXCEPT !.tasks[i] =
                  [settled |-> TRUE, world |-> world,
                   value |-> scrapeAndSummarize(web.searchResults[i].url,
                                                web.searchResults[i].title,
                                                world.fetch, world.page, world.llm)]]
    /\ UNCHANGED <<auxVars, srch, scrapes, pc, req, chats, res, svc, store>>

\* the fulfilled scrapes, whatever their summary
RECURSIVE ValidContentAll(_, _)
ValidContentAll(tasks, i) ==
    IF i > Len(tasks) THEN << >>
    ELSE (IF tasks[i].value.outcome = "resolved"
          THEN <<tasks[i].value>> ELSE << >>)
         \o ValidContentAll(tasks, i + 1)

\* lines 326-329: the fulfilled scrapes whose summary is longer than 20
RECURSIVE ValidContent(_, _)
ValidContent(tasks, i) ==
    IF i > Len(tasks) THEN << >>
    ELSE (IF tasks[i].value.outcome = "resolved"
             /\ Len(tasks[i].value.summary) > MinSummaryLen
          THEN <<tasks[i].value>> ELSE << >>)
         \o ValidContent(tasks, i + 1)

\* the wait of a race: over as soon as one scrape has settled
AllSettledFirst == \E i \in 1..Len(web.tasks) : web.tasks[i].settled

\* line 325: await Promise.allSettled(scrapingPromises)
AllSettled == \A i \in 1..Len(web.tasks) : web.tasks[i].settled

Ranked == rankResources(web.searchResults, ValidContent(web.tasks, 1))

\* the object returned on the normal path with the fallback's tag
WebResultTaggedFallback(topic, level, roadmap, ranked) ==
    [topic |-> topic, level |-> level, roadmap |-> roadmap,
     sources |-> slice(ranked, 0, SourcesKept),
     methodology |-> "llm-fallback",
     totalSteps |-> StepsLength(roadmap), warning |-> None]

\* lines 340-350: the object returned on the normal path
WebResult(topic, level, roadmap, ranked) ==
    [topic |-> topic, level |-> level, roadmap |-> roadmap,
     sources |-> slice(ranked, 0, SourcesKept),
     methodology |-> "web-enhanced-llm",
     totalSteps |-> StepsLength(roadmap), warning |-> None]

\* lines 357-368: the object returned by the catch branch
FallbackResult(topic, level, roadmap) ==
    [topic |-> topic, level |-> level, roadmap |-> roadmap,
     sources |-> << >>,
     methodology |-> "llm-fallback",
     totalSteps |-> StepsLength(roadmap),
     warning |-> "Generated without web sources due to connectivity issues"]

\* lines 325-350: every scrape has settled; rank, synthesize, and build the
\* result.  A chat failure, or reading roadmap.steps of a null roadmap,
\* throws into the catch branch.
Synthesize(l) ==
    /\ pc = "scraping"
    /\ AllSettled
    /\ chats' = [chats EXCEPT !.primary = l]
    /\ LET g == generateRoadmapWithSources(req.topic, Ranked, req.level, l)
       IN  IF g.threw
           THEN /\ res' = [res EXCEPT !.threw = "synthesis"]
                /\ pc' = "fallback"
           ELSE IF g.doc.kind = "null"
           THEN /\ res' = [res EXCEPT !.threw = "assemble"]
                /\ pc' = "fallback"
           ELSE /\ res' = [res EXCEPT !.outcome = "resolved",
                               !.result = WebResult(req.topic, req.level, g.doc, Ranked)]
                /\ pc' = "returned"
    /\ UNCHANGED <<auxVars, srch, scrapes, req, web, svc, store>>

\* lines 352-369: the catch branch; a failure of its own chat call rejects
Fallback(l) ==
    /\ pc = "fallback"
    /\ chats' = [chats EXCEPT !.fallback = l]
    /\ LET f == generateFallbackRoadmap(req.topic, req.level, l)
       IN  IF f.threw
           THEN res' = [res EXCEPT !.outcome = "rejected"]
           ELSE res' = [res EXCEPT !.outcome = "resolved",
                            !.result = FallbackResult(req.topic, req.level, f.doc)]
    /\ pc' = "returned"
    /\ UNCHANGED <<auxVars, srch, scrapes, req, web, svc, store>>

\* router.post('/roadmap') lines 45-54: res.json, or next(error) and the
\* global error handler's status 500
RouteRespond ==
    /\ pc = "returned"
    /\ req.caller = "route"
    /\ res' = [res EXCEPT !.http = IF res.outcome = "resolved" THEN 200 ELSE 500]
    /\ pc' = "done"
    /\ UNCHANGED <<auxVars, srch, scrapes, req, web, chats, svc, store>>

\* roadmapLlmService.js lines 36-45: the first 7 steps, converted
ConvertSteps(doc) ==
    IF doc.kind = "object" /\ doc.hasSteps
    THEN [i \in 1..Len(slice(doc.steps, 0, StepsKept)) |->
             [day |-> IF doc.steps[i].dayGiven THEN doc.steps[i].day ELSE i,
              topic |-> doc.steps[i].title,
              type |-> doc.steps[i].type]]
    ELSE << >>

\* roadmapLlmService.js lines 73-78
NormalizeSteps(doc) ==
    [i \in 1..Len(slice(doc.steps, 0, StepsKept)) |->
        [day |-> IF doc.steps[i].dayGiven THEN doc.steps[i].day ELSE i,
         topic |-> "Day " \o ToString(i), type |-> None]]

\* generateRoadmapWithLLM lines 27-64: the generation resolved, so the
\* converted roadmap is upserted and returned; a rejected generation or a
\* failed upsert falls through to the basic generation
ServicePersist(dbOk) ==
    /\ pc = "returned"
    /\ req.caller = "service"
    /\ IF res.outcome = "resolved" /\ dbOk
       THEN /\ store' = [exists |-> TRUE, steps |-> ConvertSteps(res.result.roadmap),
                         generatedWith |-> "research-agent",
                         sources |-> slice(res.result.sources, 0, StoredSources),
                         metadata |-> StrictCast("metadata", "research-agent")]
            /\ svc' = [svc EXCEPT !.outcome = "resolved", !.upserts = @ + 1]
            /\ pc' = "done"
       ELSE /\ svc' = [svc EXCEPT !.dbErrors =
                           IF res.outcome = "resolved" THEN @ + 1 ELSE @]
            /\ pc' = "basic"
            /\ UNCHANGED store
    /\ UNCHANGED <<auxVars, srch, scrapes, req, web, chats, res>>

\* generateRoadmapWithLLM lines 68-91: the basic generation; a chat
\* failure, a reply without a steps array and a failed upsert all throw to
\* the caller
BasicGeneration(l, dbOk) ==
    /\ pc = "basic"
    /\ chats' = [chats EXCEPT !.basic = l]
    /\ LET reply == chat(l)
           json == extractJSON(reply.text)
       IN  IF reply.kind = "throws" \/ json.kind # "object" \/ ~json.hasSteps
           THEN /\ svc' = [svc EXCEPT !.outcome = "rejected"]
                /\ UNCHANGED store
           ELSE IF dbOk
           THEN /\ store' = [exists |-> TRUE, steps |-> NormalizeSteps(json),
                             generatedWith |-> "basic-llm", sources |-> << >>,
                             metadata |-> StrictCast("metadata", "basic-llm")]
                /\ svc' = [svc EXCEPT !.outcome = "resolved", !.upserts = @ + 1]
           ELSE /\ svc' = [svc EXCEPT !.outcome = "rejected", !.dbErrors = @ + 1]
                /\ UNCHANGED store
    /\ pc' = "done"
    /\ UNCHANGED <<auxVars, srch, scrapes, req, web, res>>

Init ==
    /\ srch = SrchIdle
    /\ scrapes = << >>
    /\ GenIdle
    /\ AuxIdle

Next ==
    \/ \E t \in Topics, lv \in Levels : RoadmapRoute(t, lv)
    \/ \E sk \in Topics \cup {""}, lv \in Levels, ra \in BOOLEAN : ServiceStart(sk, lv, ra)
    \/ \E live \in GenLive : SearchStep(live)
    \/ \E i \in 1..ScrapeTop, w \in GenWorlds : ScrapeSettle(i, w)
    \/ \E l \in GenLlms : Synthesize(l)
    \/ \E l \in GenLlms : Fallback(l)
    \/ RouteRespond
    \/ \E dbOk \in BOOLEAN : ServicePersist(dbOk)
    \/ \E l \in GenLlms, dbOk \in BOOLEAN : BasicGeneration(l, dbOk)

Spec == Init /\ [][Next]_vars

\* generateComprehensiveRoadmap has settled
GenSettled == res.outcome # None

\* C1 (as claimed): every generateComprehensiveRoadmap call, and every
\* validated POST /api/research/roadmap, ends in a web-enhanced, an
\* llm-fallback or a static-skeleton result, never in a rejection or an
\* error status, whatever the search, the scrapes, the primary synthesis
\* call and the fallback call do.
C1_NeverRejects ==
    /\ GenSettled =>
          /\ res.outcome = "resolved"
          /\ res.result.methodology \in {"web-enhanced-llm", "llm-fallback"}
    /\ (req.caller = "route" /\ pc = "done") => res.http = 200

\* the fallback's reply holds no valid steps list
NoValidSteps(doc) == doc.kind # "object" \/ ~doc.hasSteps \/ doc.steps = << >>

\* C2 (as claimed): in generateFallbackRoadmap, whenever synthesis returns
\* no valid steps list (unparseable, or parsed without a non-empty steps
\* array), the roadmap returned is the static skeleton: one step titled
\* "Introduction to <topic>", of type theory, with the requested level.
C2_SkeletonWhenNoSteps ==
    (GenSettled /\ chats.fallback.status = "ok"
     /\ NoValidSteps(extractJSON(chats.fallback.content)))
        => /\ res.outcome = "resolved"
           /\ res.result.roadmap.kind = "object"
           /\ Len(res.result.roadmap.steps) = 1
           /\ res.result.roadmap.steps[1].title = "Introduction to " \o req.topic
           /\ res.result.roadmap.steps[1].type = "theory"
           /\ res.result.roadmap.steps[1].difficulty = req.level

\* C3 (as claimed): generateRoadmapWithLLM(userId, true) for a user with a
\* skill, with the live search, every scrape and the primary synthesis
\* call failing (and the store working), ends with a persisted roadmap of
\* at least one step and no exception for the caller.
C3_PersistsAtLeastOneStep ==
    (/\ pc = "done"
     /\ req.caller = "service" /\ req.useResearchAgent /\ req.topic # ""
     /\ web.live.kind = "error"
     /\ Len(web.tasks) >= 1
     /\ \A i \in 1..Len(web.tasks) : web.tasks[i].world.fetch = "error"
     /\ chats.primary.status = "down"
     /\ svc.dbErrors = 0)
        => /\ svc.outcome = "resolved"
           /\ store.exists
           /\ Len(store.steps) >= 1

\* C4: a result of generateComprehensiveRoadmap is tagged web-enhanced-llm,
\* without warning, when nothing threw in the search, scrape, rank and
\* synthesis stages (an unparseable synthesis reply throws when its null
\* document is read), and llm-fallback, with a non-empty warning and no
\* sources, when something did; there is no other tag.
C4_MethodologyTags ==
    (GenSettled /\ res.outcome = "resolved") =>
        \/ /\ res.threw = None
           /\ res.result.methodology = "web-enhanced-llm"
           /\ res.result.warning = None
        \/ /\ res.threw \in {"search", "scrape", "rank", "synthesis", "assemble"}
           /\ res.result.methodology = "llm-fallback"
           /\ res.result.warning \notin {None, ""}
           /\ res.result.sources = << >>

C4_Witness ==
    /\ res.outcome = "resolved"
    /\ res.threw = "synthesis"
    /\ Len(web.searchResults) > ScrapeTop
    /\ res.result.methodology = "llm-fallback"
    /\ res.result.sources = << >>

\* C5 (as claimed): a result tagged web-enhanced-llm carries a roadmap with
\* at least one step, and totalSteps >= 1.
C5_WebEnhancedHasSteps ==
    (GenSettled /\ res.outcome = "resolved"
     /\ res.result.methodology = "web-enhanced-llm")
        => /\ res.result.roadmap.kind = "object"
           /\ Len(res.result.roadmap.steps) >= 1
           /\ res.result.totalSteps >= 1

(***************************************************************************)
(* rankResources called on its own: search results with a relevanceScore   *)
(* in [0,1] (0 included), on a trusted and on an untrusted domain, and     *)
(* scraped contents matched to them by url, two calls on the same arrays.  *)
(***************************************************************************)
\* largest number of search results handed to rankResources
MaxRankLen == 3

TrustedUrl == "https://react.dev/learn"
PlainUrl == "https://live.example/topic1"

\* relevanceScore 0, 0.1, 0.7 and 1.0, on a trusted and on another domain
RankCandidates ==
    {Entry("Result", TrustedUrl, "Web", 0, "live"),
     Entry("Result", TrustedUrl, "Web", 100, "live"),
     Entry("Result", PlainUrl, "Web", 700, "live"),
     Entry("Result", PlainUrl, "Web", 1000, "live"),
     Entry("Result", TrustedUrl, "Web", 1000, "live")}

LongSummary ==
    "The guide walks through the core concepts step by step, with exercises after each part and a project."

\* more than 500 words, 4 headings, a summary longer than 100 characters
RichContent(u) == ScrapedContent("resolved", u, "Result", 1000, LongSummary, 4, 600, None)

\* exactly 3 headings, and nothing else that boosts
ThreeHeadings(u) ==
    ScrapedContent("resolved", u, "Result", 1000,
                   "Covers the fundamentals with worked examples.", 3, 250, None)

RankContents == {RichContent(TrustedUrl), RichContent(PlainUrl), ThreeHeadings(PlainUrl)}

SeqsUpTo(S, n) == UNION {[1..k -> S] : k \in 0..n}

\* the valid scrapes of a run: at most one per url, in either order
RankScraped ==
    {<< >>} \cup {<<c>> : c \in RankContents}
    \cup {p \in RankContents \X RankContents : p[1].url # p[2].url}

RankInputs ==
    [searchResults : SeqsUpTo(RankCandidates, MaxRankLen), scrapedContent : RankScraped]

\* the first call of rankResources on the two arrays
RankCall ==
    /\ rank.calls = 0
    /\ LET e == rankResourcesEffect(rank.searchResults, rank.scrapedContent)
       IN  rank' = [rank EXCEPT !.calls = 1, !.first = e.returned,
                                !.searchResults = e.searchResults,
                                !.scrapedContent = e.scrapedContent]
    /\ UNCHANGED <<srch, scrapes, genVars, storeVars, rq, px, lateVars>>

\* a second call on the same two arrays
RankAgain ==
    /\ rank.calls = 1
    /\ LET e == rankResourcesEffect(rank.searchResults, rank.scrapedContent)
       IN  rank' = [rank EXCEPT !.calls = 2, !.second = e.returned,
                                !.searchResults = e.searchResults,
                                !.scrapedContent = e.scrapedContent]
    /\ UNCHANGED <<srch, scrapes, genVars, storeVars, rq, px, lateVars>>

InitRank ==
    /\ srch = SrchIdle
    /\ scrapes = << >>
    /\ GenIdle
    /\ StoreIdle
    /\ rq = RqIdle
    /\ px = PxIdle
    /\ LateIdle
    /\ \E in \in RankInputs :
          rank = [given |-> in, searchResults |-> in.searchResults,
                  scrapedContent |-> in.scrapedContent,
                  calls |-> 0, first |-> << >>, second |-> << >>]

NextRank == RankCall \/ RankAgain

SpecRank == InitRank /\ [][NextRank]_vars

\* the resources the last call returned
RankOut == IF rank.calls = 2 THEN rank.second ELSE rank.first

Trusted(url) == \E d \in TrustedDomains : includes(url, d)

\* C11: for search results with relevanceScore in [0,1] and any scraped
\* contents, every qualityScore rankResources computes lies in [0,1], and a
\* candidate that differs from a ranked one only by a trusted-domain match,
\* a larger scraped word count or a larger heading count never scores lower.
C11_QualityBoundedMonotone ==
    \A k \in 1..Len(RankOut) :
        LET r == RankOut[k]
            s == r.scrapedContent
        IN  /\ r.qualityScore >= 0 /\ r.qualityScore <= 1000
            /\ ~Trusted(r.url) =>
                  QualityScore([r EXCEPT !.url = "https://github.com/topic2"], s)
                      >= r.qualityScore
            /\ s # NoScrape =>
                  /\ \A w \in {s.wordCount + 1, 500, 501, 5000} :
                        w >= s.wordCount =>
                            QualityScore(r, [s EXCEPT !.wordCount = w]) >= r.qualityScore
                  /\ \A h \in s.headers..HeadersKept :
                        QualityScore(r, [s EXCEPT !.headers = h]) >= r.qualityScore

C11_Witness ==
    /\ rank.calls >= 1
    /\ \E k \in 1..Len(rank.first) :
          /\ rank.first[k].scrapedContent = RichContent(rank.first[k].url)
          /\ rank.first[k].relevanceScore = 1000
          /\ rank.first[k].qualityScore = 1000
    /\ \E k \in 1..Len(rank.first) :
          /\ rank.first[k].scrapedContent = ThreeHeadings(rank.first[k].url)
          /\ rank.first[k].relevanceScore = 700
          /\ ~Trusted(rank.first[k].url)
          /\ rank.first[k].qualityScore
                < QualityScore(rank.first[k],
                               [rank.first[k].scrapedContent EXCEPT !.headers = 4])

Near(a, b) == a - b \in -1..1

\* C12 (as claimed): qualityScore is min(1.0, relevanceScore + boosts), up to
\* the rounding of the additions, with +0.1 for a matched scrape of more
\* than 500 words, +0.1 for one with 3 or more headings, +0.1 for one with
\* a summary longer than 100 characters and +0.2 for a trusted domain.
C12_BoostsWithThreeHeadings ==
    \A k \in 1..Len(RankOut) :
        LET r == RankOut[k]
            s == r.scrapedContent
            boosts ==
                (IF s # NoScrape /\ s.wordCount > 500 THEN 100 ELSE 0)
                + (IF s # NoScrape /\ s.headers >= 3 THEN 100 ELSE 0)
                + (IF s # NoScrape /\ Len(s.summary) > 100 THEN 100 ELSE 0)
                + (IF Trusted(r.url) THEN 200 ELSE 0)
        IN  Near(r.qualityScore, Min(1000, r.relevanceScore + boosts))

\* C12 (amended): qualityScore is min(1.0, base + boosts), up to the
\* rounding of the additions, where base is relevanceScore, or 0.5 when
\* relevanceScore is 0, and the heading boost needs more than 3 headings: a
\* result with exactly 3 headings does not receive it.
C12_BoostsOverThreeHeadings ==
    \A k \in 1..Len(RankOut) :
        LET r == RankOut[k]
            s == r.scrapedContent
            base == IF r.relevanceScore = 0 THEN 500 ELSE r.relevanceScore
            boosts ==
                (IF s # NoScrape /\ s.wordCount > 500 THEN 100 ELSE 0)
                + (IF s # NoScrape /\ s.headers > 3 THEN 100 ELSE 0)
                + (IF s # NoScrape /\ Len(s.summary) > 100 THEN 100 ELSE 0)
                + (IF Trusted(r.url) THEN 200 ELSE 0)
        IN  Near(r.qualityScore, Min(1000, base + boosts))

C12_Witness ==
    /\ rank.calls >= 1
    /\ \E k \in 1..Len(rank.first) :
          /\ rank.first[k].scrapedContent # NoScrape
          /\ rank.first[k].scrapedContent.headers = 3
          /\ rank.first[k].relevanceScore = 700
          /\ rank.first[k].qualityScore = 700
    /\ \E k \in 1..Len(rank.first) :
          /\ rank.first[k].scrapedContent # NoScrape
          /\ rank.first[k].scrapedContent.headers = 4
          /\ rank.first[k].relevanceScore = 100
          /\ Trusted(rank.first[k].url)
          /\ rank.first[k].qualityScore = 601

\* the qualityScore of the search result at position i of the input
GivenQuality(i) ==
    QualityScore(rank.given.searchResults[i],
                 Find(rank.given.scrapedContent, rank.given.searchResults[i].url, 1))

\* the positions of the input whose qualityScore is q, in input order
RECURSIVE GivenWithQuality(_, _)
GivenWithQuality(q, i) ==
    IF i > Len(rank.given.searchResults) THEN << >>
    ELSE (IF GivenQuality(i) = q THEN <<rank.given.searchResults[i]>> ELSE << >>)
         \o GivenWithQuality(q, i + 1)

RECURSIVE OutWithQuality(_, _)
OutWithQuality(q, k) ==
    IF k > Len(rank.first) THEN << >>
    ELSE (IF rank.first[k].qualityScore = q THEN <<Unranked(rank.first[k])>> ELSE << >>)
         \o OutWithQuality(q, k + 1)

\* C13: the array rankResources returns is ordered by non-increasing
\* qualityScore, and the resources of equal qualityScore appear in the
\* relative order their search results had in the input.
C13_SortedDescendingStable ==
    rank.calls >= 1 =>
        /\ Len(rank.first) = Len(rank.given.searchResults)
        /\ \A k \in 1..(Len(rank.first) - 1) :
              rank.first[k].qualityScore >= rank.first[k + 1].qualityScore
        /\ \A k \in 1..Len(rank.first) :
              OutWithQuality(rank.first[k].qualityScore, 1)
                  = GivenWithQuality(rank.first[k].qualityScore, 1)

C13_Witness ==
    /\ rank.calls >= 1
    /\ Len(rank.first) = 3
    /\ rank.first[1].qualityScore = rank.first[2].qualityScore
    /\ Unranked(rank.first[1]) # Unranked(rank.first[2])
    /\ rank.first[2].qualityScore > rank.first[3].qualityScore
    /\ Unranked(rank.first[1]) = rank.given.searchResults[2]
    /\ Unranked(rank.first[2]) = rank.given.searchResults[3]
    /\ Unranked(rank.first[3]) = rank.given.searchResults[1]

PersistedFrom ==
    IF store.generatedWith = "research-agent" THEN res.result.roadmap
    ELSE extractJSON(chats.basic.content)

\* C15 (as claimed): for a synthesis output of more than 7 steps, whatever
\* day and week values they carry, the roadmap generateRoadmapWithLLM
\* persists has at most 7 steps and their day values are 1, 2, ..., n in
\* order.
C15_SevenStepsContiguousDays ==
    (/\ pc = "done" /\ req.caller = "service" /\ svc.outcome = "resolved"
     /\ Len(PersistedFrom.steps) > StepsKept)
        => /\ Len(store.steps) <= StepsKept
           /\ \A i \in 1..Len(store.steps) : store.steps[i].day = i

(***************************************************************************)
(* The Roadmap collection of one user, and the runs that write it:         *)
(* generateRoadmapWithLLM (roadmapLlmService.js), generateRoadmapForUser   *)
(* (roadmapService.js) and updateRoadmapForWeakAreas (adaptiveEngine.js).  *)
(* Each await on the collection is a step, so runs interleave between      *)
(* their reads and writes.  userId is unique in the collection.            *)
(***************************************************************************)
DurationDays == 7

\* generateRoadmapForUser lines 124-132, for a user without a profile
SeedSteps ==
    [i \in 1..DurationDays |->
        [day |-> i, topic |-> "General Skill: Beginner Day " \o ToString(i),
         type |-> None]]

RoadmapDoc(steps, generatedWith) == [steps |-> steps, generatedWith |-> generatedWith]

\* a write that creates a document each time
UpsertInserts(roadmaps, steps, generatedWith) ==
    Append(roadmaps, RoadmapDoc(steps, generatedWith))

\* Roadmap.findOneAndUpdate({userId}, {steps, metadata}, {upsert: true}):
\* the user's document gets the new steps in place of the old, and is
\* created when there is none; an update without metadata (generatedWith
\* None) leaves the stored one
Upsert(roadmaps, steps, generatedWith) ==
    IF roadmaps = << >> THEN <<RoadmapDoc(steps, generatedWith)>>
    ELSE [roadmaps EXCEPT ![1] =
             RoadmapDoc(steps, IF generatedWith = None THEN @.generatedWith
                               ELSE generatedWith)]

\* what generateComprehensiveRoadmap settles with, as [threw, doc]: a
\* rejection, or a result whose roadmap is a parsed reply
ComprehensiveOutcomes ==
    {Thrown} \cup {Returned(extractJSON(t)) :
                      t \in {ReplyEmptyObject, ReplyOneStep, ReplyWeeklyPlan}}

\* what the completion service does at the basic prompt
StoreLlms == {LlmDown, LlmOk(ReplyOneStep), LlmOk(ReplyNoDays)}

\* the topic of the weakest concept of the memory bank; "" when no concept
\* has a strengthLevel below 50
WeakTopics == {"", "Hooks"}

\* adaptiveEngine.js lines 19-23 and 30
ReviewStep(topic) == [day |-> 1, topic |-> "Review " \o topic, type |-> None]

\* adaptiveEngine.js line 29
Shifted(steps) == [i \in 1..Len(steps) |-> [steps[i] EXCEPT !.day = @ + 1]]

\* runs take the free slots in order
CanStart(p) ==
    /\ runs[p].kind = None
    /\ IF p = 1 THEN TRUE ELSE runs[p - 1].kind # None

\* generateRoadmapWithLLM lines 20-24: the profile and the memory bank are
\* read, and the research path is taken when asked for and there is a skill
LlmStart(p, useResearchAgent, skill) ==
    /\ CanStart(p)
    /\ runs' = [runs EXCEPT ![p].kind = "llm",
                            ![p].pc = IF useResearchAgent /\ skill # ""
                                      THEN "research" ELSE "basic"]
    /\ UNCHANGED <<db, srch, scrapes, genVars, rank, rq, px, lateVars>>

\* lines 27-45: generateComprehensiveRoadmap settles; its steps are
\* converted, or its rejection is caught
LlmResearch(p, out) ==
    /\ runs[p].pc = "research"
    /\ runs' = IF out.threw THEN [runs EXCEPT ![p].pc = "basic"]
               ELSE [runs EXCEPT ![p].pc = "upsert",
                                 ![p].steps = ConvertSteps(out.doc)]
    /\ UNCHANGED <<db, srch, scrapes, genVars, rank, rq, px, lateVars>>

\* a run that goes on to the basic generation after its upsert
UpsertThenFallsThrough(kind, dbOk) == IF kind = "llm" THEN "basic" ELSE "done"

\* lines 59-64 (and roadmapService.js line 140): after the upsert the run
\* returns; a failed upsert of the research path is caught and the basic
\* generation follows
UpsertThen(kind, dbOk) == IF dbOk \/ kind # "llm" THEN "done" ELSE "basic"

\* roadmapLlmService.js lines 47-58, roadmapService.js lines 134-138
RunUpsert(p, dbOk) ==
    /\ runs[p].pc = "upsert"
    /\ db' = IF dbOk
             THEN Upsert(db, runs[p].steps,
                         IF runs[p].kind = "llm" THEN "research-agent" ELSE None)
             ELSE db
    /\ runs' = [runs EXCEPT ![p].writes = IF dbOk THEN @ + 1 ELSE @,
                            ![p].pc = UpsertThen(runs[p].kind, dbOk),
                            ![p].outcome =
                                IF UpsertThen(runs[p].kind, dbOk) # "done" THEN @
                                ELSE IF dbOk THEN "resolved" ELSE "rejected"]
    /\ UNCHANGED <<srch, scrapes, genVars, rank, rq, px, lateVars>>

\* lines 68-91: the basic generation and its upsert
LlmBasic(p, l, dbOk) ==
    /\ runs[p].pc = "basic"
    /\ LET reply == chat(l)
           json == extractJSON(reply.text)
       IN  IF reply.kind = "throws" \/ json.kind # "object" \/ ~json.hasSteps \/ ~dbOk
           THEN /\ runs' = [runs EXCEPT ![p].pc = "done", ![p].outcome = "rejected"]
                /\ UNCHANGED db
           ELSE /\ db' = Upsert(db, NormalizeSteps(json), "basic-llm")
                /\ runs' = [runs EXCEPT ![p].pc = "done", ![p].outcome = "resolved",
                                        ![p].steps = NormalizeSteps(json),
                                        ![p].writes = @ + 1]
    /\ UNCHANGED <<srch, scrapes, genVars, rank, rq, px, lateVars>>

\* generateRoadmapForUser lines 122-132
SeedStart(p) ==
    /\ CanStart(p)
    /\ runs' = [runs EXCEPT ![p].kind = "seed", ![p].pc = "upsert",
                            ![p].steps = SeedSteps]
    /\ UNCHANGED <<db, srch, scrapes, genVars, rank, rq, px, lateVars>>

\* updateRoadmapForWeakAreas lines 5-30: the bank and the roadmap are read;
\* without roadmap, weak topic, or with the review step there already, the
\* run returns; else the new steps are built from the steps read
AdaptiveRead(p, weakest) ==
    /\ CanStart(p)
    /\ IF \/ db = << >>
          \/ weakest = ""
          \/ \E i \in 1..Len(db[1].steps) :
                db[1].steps[i].topic = ReviewStep(weakest).topic
       THEN runs' = [runs EXCEPT ![p].kind = "adaptive", ![p].pc = "done",
                                 ![p].reads = @ + 1, ![p].outcome = "resolved"]
       ELSE runs' = [runs EXCEPT ![p].kind = "adaptive", ![p].pc = "save",
                                 ![p].reads = @ + 1,
                                 ![p].steps = <<ReviewStep(weakest)>>
                                                 \o Shifted(db[1].steps)]
    /\ UNCHANGED <<db, srch, scrapes, genVars, rank, rq, px, lateVars>>

\* line 31: roadmap.save() writes the steps built from the earlier read
AdaptiveSave(p, dbOk) ==
    /\ runs[p].pc = "save"
    /\ db' = IF dbOk THEN [db EXCEPT ![1].steps = runs[p].steps] ELSE db
    /\ runs' = [runs EXCEPT ![p].pc = "done",
                            ![p].writes = IF dbOk THEN @ + 1 ELSE @,
                            ![p].outcome = IF dbOk THEN "resolved" ELSE "rejected"]
    /\ UNCHANGED <<srch, scrapes, genVars, rank, rq, px, lateVars>>

\* the collection is empty, or holds the roadmap the seed script wrote
InitStore ==
    /\ srch = SrchIdle
    /\ scrapes = << >>
    /\ GenIdle
    /\ rank = RankIdle
    /\ rq = RqIdle
    /\ px = PxIdle
    /\ LateIdle
    /\ db \in {<< >>, <<RoadmapDoc(SeedSteps, None)>>}
    /\ runs = [p \in 1..MaxRuns |-> RunIdle]

NextStore ==
    \E p \in 1..MaxRuns :
        \/ \E ra \in BOOLEAN, sk \in {"", "Go"} : LlmStart(p, ra, sk)
        \/ \E out \in ComprehensiveOutcomes : LlmResearch(p, out)
        \/ \E dbOk \in BOOLEAN : RunUpsert(p, dbOk)
        \/ \E l \in StoreLlms, dbOk \in BOOLEAN : LlmBasic(p, l, dbOk)
        \/ SeedStart(p)
        \/ \E w \in WeakTopics : AdaptiveRead(p, w)
        \/ \E dbOk \in BOOLEAN : AdaptiveSave(p, dbOk)

SpecStore == InitStore /\ [][NextStore]_vars

\* C16 (as claimed): whatever generations and adaptive updates ran for the
\* user, the stored roadmap has at most 7 steps and its day values are
\* 1, 2, ..., n.
C16_StoredAtMostSevenContiguous ==
    \A d \in 1..Len(db) :
        /\ Len(db[d].steps) <= StepsKept
        /\ \A i \in 1..Len(db[d].steps) : db[d].steps[i].day = i

Generation(p) == runs[p].kind \in {"llm", "seed"}

\* C17: after any interleaving of generations for the user, concurrent
\* ones included, the collection holds one roadmap document for the user
\* (none before the first write), and while no adaptive update has saved,
\* its steps are the steps one single generation wrote: those of the
\* initial document, or those of one run that wrote.
C17_OneDocumentOneWriter ==
    /\ Len(db) <= 1
    /\ (\E p \in 1..MaxRuns : runs[p].writes >= 1) => Len(db) = 1
    /\ (Len(db) = 1 /\ \A p \in 1..MaxRuns : runs[p].kind = "adaptive" => runs[p].writes = 0)
          => \/ /\ \A p \in 1..MaxRuns : runs[p].writes = 0
                /\ db[1].steps = SeedSteps
             \/ \E p \in 1..MaxRuns :
                   /\ Generation(p) /\ runs[p].writes >= 1
                   /\ db[1].steps = runs[p].steps

C17_Witness ==
    /\ runs[1].kind = "llm" /\ runs[1].pc = "upsert"
    /\ Len(runs[1].steps) = StepsKept
    /\ runs[2].kind = "llm" /\ runs[2].pc = "done" /\ runs[2].writes = 1
    /\ Len(db) = 1
    /\ db[1].steps = runs[2].steps
    /\ Len(db[1].steps) = 1
    /\ db[1].generatedWith = "basic-llm"

\* C18 (as claimed): each run of generateRoadmapWithLLM mutates the store
\* exactly once, on every path, and never reads the roadmap.
C18_ExactlyOneUpsert ==
    \A p \in 1..MaxRuns :
        (runs[p].kind = "llm" /\ runs[p].pc = "done")
            => runs[p].writes = 1 /\ runs[p].reads = 0

\* C18 (amended): a run of generateRoadmapWithLLM never reads the roadmap
\* and mutates the store at most once, by one upsert: exactly once when it
\* returns a roadmap, and not at all when it throws.
C18_OneUpsertWhenResolved ==
    \A p \in 1..MaxRuns :
        runs[p].kind = "llm" =>
            /\ runs[p].reads = 0
            /\ runs[p].writes <= 1
            /\ runs[p].pc = "done" =>
                  /\ runs[p].outcome = "resolved" => runs[p].writes = 1
                  /\ runs[p].outcome = "rejected" => runs[p].writes = 0
            /\ runs[p].pc # "done" => runs[p].writes = 0

C18_Witness ==
    /\ runs[1].kind = "llm" /\ runs[1].pc = "done"
    /\ runs[1].outcome = "resolved" /\ runs[1].writes = 1
    /\ db[1].generatedWith = "research-agent"
    /\ runs[2].kind = "llm" /\ runs[2].pc = "done"
    /\ runs[2].outcome = "rejected" /\ runs[2].writes = 0

(***************************************************************************)
(* The routes of /api/research that take user input: POST /roadmap,        *)
(* POST /scrape, POST /analyze-topic and POST /compare-resources, for one  *)
(* authenticated request.  The express-validator chains of a route run     *)
(* first and record their errors in the request; the handler follows.      *)
(***************************************************************************)
\* largest number of urls in a comparison request
MaxUrls == 3

MinValidResources == 2
MinUrls == 2
MaxUrlsAllowed == 5
MaxTopicLen == 200

LevelsAllowed == {"beginner", "intermediate", "advanced"}
DepthsAllowed == {"overview", "detailed", "comprehensive"}

\* validator.js isURL with its defaults, on the strings of the model: no
\* whitespace, and a host with a top-level domain
isURL(s) == Len(s) > 0 /\ ~includes(s, " ") /\ includes(s, ".")

RqUrls == {"https://react.dev/learn", "not-a-valid-url"}

Body(topic, level, depth, url, urlsGiven, urls) ==
    [topic |-> topic, level |-> level, depth |-> depth, url |-> url,
     urlsGiven |-> urlsGiven, urls |-> urls]

\* the requests: a topic that is empty or not, a level and a depth absent,
\* in the enum or outside it, a url well-formed or not, and a urls array
\* absent or of any length up to MaxUrls
RqRequests ==
    {[route |-> "roadmap", body |-> Body(t, lv, None, "", FALSE, << >>)] :
        t \in {"", "Go"}, lv \in {None, "beginner", "expert"}}
    \cup {[route |-> "scrape", body |-> Body("", None, None, u, FALSE, << >>)] :
             u \in RqUrls}
    \cup {[route |-> "analyze", body |-> Body(t, None, d, "", FALSE, << >>)] :
             t \in {"", "Go"}, d \in {None, "overview", "everything"}}
    \cup {[route |-> "compare", body |-> Body("", None, None, "", TRUE, us)] :
             us \in SeqsUpTo(RqUrls, MaxUrls)}
    \cup {[route |-> "compare", body |-> Body("", None, None, "", FALSE, << >>)]}

\* body('topic').isString().isLength({min: 1, max: 200})
TopicErrors(body) ==
    IF Len(body.topic) >= 1 /\ Len(body.topic) <= MaxTopicLen THEN << >>
    ELSE <<"Topic is required and must be 1-200 characters">>

\* the validation chains of a route: the messages of the fields that fail
ValidationErrors(route, body) ==
    CASE route = "roadmap" ->
            TopicErrors(body)
            \o (IF body.level = None \/ body.level \in LevelsAllowed THEN << >>
                ELSE <<"Level must be beginner, intermediate, or advanced">>)
      [] route = "scrape" ->
            IF isURL(body.url) THEN << >> ELSE <<"Valid URL is required">>
      [] route = "analyze" ->
            TopicErrors(body)
            \o (IF body.depth = None \/ body.depth \in DepthsAllowed THEN << >>
                ELSE <<"Depth must be overview, detailed, or comprehensive">>)
      [] route = "compare" ->
            (IF body.urlsGiven /\ Len(body.urls) >= MinUrls
                /\ Len(body.urls) <= MaxUrlsAllowed
             THEN << >> ELSE <<"URLs array with 2-5 URLs is required">>)
            \o (IF \A i \in 1..Len(body.urls) : isURL(body.urls[i]) THEN << >>
                ELSE <<"Each URL must be valid">>)

\* the validation chains run and pass the request on
RunValidators ==
    /\ rq.pc = "received"
    /\ rq' = [rq EXCEPT !.errors = ValidationErrors(rq.route, rq.body),
                        !.pc = "handler"]
    /\ UNCHANGED <<srch, scrapes, genVars, rank, storeVars, px, lateVars>>

\* what a scrape of a route meets; a string that is no URL cannot be fetched
RqWorlds(url) ==
    {w \in {[fetch |-> "error", page |-> PageBroken, llm |-> LlmDown],
            [fetch |-> "ok", page |-> PageArticle,
             llm |-> LlmOk("Covers the fundamentals with worked examples.")],
            [fetch |-> "ok", page |-> PageArticle, llm |-> LlmDown]} :
        isURL(url) \/ w.fetch = "error"}

\* the chat calls summarizeContent makes inside one scrapeAndSummarize
SummaryChats(world) ==
    IF world.fetch = "ok" /\ world.page.parse = "ok"
       /\ ExtractContent(world.page) >= MinSummarizable
    THEN 1 ELSE 0

Responded(status, success, message, comparison) ==
    [rq EXCEPT !.pc = "responded", !.status = status, !.success = success,
               !.message = message, !.comparison = comparison]

\* POST /roadmap lines 25-54: generateComprehensiveRoadmap searches and
\* calls the completion service at least once, and resolves or rejects
RoadmapHandler(resolved) ==
    /\ rq.pc = "handler" /\ rq.route = "roadmap"
    /\ rq' = [Responded(IF resolved THEN 200 ELSE 500, resolved,
                        IF resolved THEN "Roadmap generated successfully" ELSE None,
                        FALSE)
                 EXCEPT !.calls.search = 1, !.calls.llm = 1]
    /\ UNCHANGED <<srch, scrapes, genVars, rank, storeVars, px, lateVars>>

\* POST /scrape lines 96-107
ScrapeHandler(world) ==
    /\ rq.pc = "handler" /\ rq.route = "scrape"
    /\ world \in RqWorlds(rq.body.url)
    /\ rq' = [Responded(200, TRUE, "Content scraped and summarized successfully", FALSE)
                 EXCEPT !.calls.scrape = 1, !.calls.summary = SummaryChats(world)]
    /\ UNCHANGED <<srch, scrapes, genVars, rank, storeVars, px, lateVars>>

\* POST /analyze-topic line 129
AnalyzeSearchLimit(depth) ==
    IF depth = "overview" THEN 5 ELSE IF depth = None \/ depth = "detailed" THEN 10
    ELSE 15

\* POST /analyze-topic lines 123-186: the search, the scrapes of its first 5
\* results and the analysis chat
AnalyzeHandler(live, l) ==
    /\ rq.pc = "handler" /\ rq.route = "analyze"
    /\ LET results == performWebSearch(rq.body.topic,
                                       AnalyzeSearchLimit(rq.body.depth), live).results
           ok == chat(l).kind = "reply"
       IN  rq' = [Responded(IF ok THEN 200 ELSE 500, ok,
                            IF ok THEN "Topic analysis completed successfully" ELSE None,
                            FALSE)
                     EXCEPT !.calls.search = 1,
                            !.calls.scrape = Len(slice(results, 0, ScrapeTop)),
                            !.calls.llm = 1]
    /\ UNCHANGED <<srch, scrapes, genVars, rank, storeVars, px, lateVars>>

\* POST /compare-resources lines 198-206: reading urls.length of a missing
\* urls throws into the catch branch; else one scrape per url is issued
CompareStart ==
    /\ rq.pc = "handler" /\ rq.route = "compare"
    /\ rq' = IF ~rq.body.urlsGiven THEN Responded(500, FALSE, None, FALSE)
             ELSE [rq EXCEPT !.pc = "scraping",
                             !.tasks = [i \in 1..Len(rq.body.urls) |-> PendingTask]]
    /\ UNCHANGED <<srch, scrapes, genVars, rank, storeVars, px, lateVars>>

\* one of the concurrent scrapeAndSummarize(url, `Resource ${index + 1}`)
CompareSettle(i, world) ==
    /\ rq.pc = "scraping"
    /\ i \in 1..Len(rq.tasks)
    /\ ~rq.tasks[i].settled
    /\ world \in RqWorlds(rq.body.urls[i])
    /\ rq' = [rq EXCEPT !.tasks[i] =
                 [settled |-> TRUE, world |-> world,
                  value |-> scrapeAndSummarize(rq.body.urls[i],
                                               "Resource " \o ToString(i),
                                               world.fetch, world.page, world.llm)],
                        !.calls.scrape = @ + 1,
                        !.calls.summary = @ + SummaryChats(world)]
    /\ UNCHANGED <<srch, scrapes, genVars, rank, storeVars, px, lateVars>>

\* lines 209-222: the fulfilled values and the stand-ins of rejected
\* scrapes, without those that carry an error
RECURSIVE ValidResources(_, _)
ValidResources(tasks, i) ==
    IF i > Len(tasks) THEN << >>
    ELSE (IF tasks[i].value.outcome = "resolved" /\ tasks[i].value.error = None
          THEN <<tasks[i].value>> ELSE << >>)
         \o ValidResources(tasks, i + 1)

\* a comparison attempted with a single valid resource
EnoughToCompareOne(n) == n >= 1

\* line 224
EnoughToCompare(n) == n >= MinValidResources

\* lines 208-276: every scrape has settled; with enough valid resources the
\* comparison chat is made (its failure goes to the catch branch), else the
\* explicit result is sent
CompareRespond(l) ==
    /\ rq.pc = "scraping"
    /\ \A i \in 1..Len(rq.tasks) : rq.tasks[i].settled
    /\ rq' = IF EnoughToCompare(Len(ValidResources(rq.tasks, 1)))
             THEN [(IF chat(l).kind = "throws"
                    THEN Responded(500, FALSE, None, FALSE)
                    ELSE Responded(200, TRUE,
                                   "Resource comparison completed successfully", TRUE))
                      EXCEPT !.calls.llm = 1]
             ELSE Responded(200, FALSE, "Not enough valid resources to compare", FALSE)
    /\ UNCHANGED <<srch, scrapes, genVars, rank, storeVars, px, lateVars>>

InitRoutes ==
    /\ srch = SrchIdle
    /\ scrapes = << >>
    /\ GenIdle
    /\ rank = RankIdle
    /\ StoreIdle
    /\ px = PxIdle
    /\ LateIdle
    /\ \E r \in RqRequests :
          rq = [RqIdle EXCEPT !.route = r.route, !.body = r.body, !.pc = "received"]

CompareLlms == {LlmDown, LlmOk(ReplyProse), LlmOk(ReplyEmptyObject)}

NextRoutes ==
    \/ RunValidators
    \/ \E resolved \in BOOLEAN : RoadmapHandler(resolved)
    \/ \E w \in RqWorlds("https://react.dev/learn") : ScrapeHandler(w)
    \/ \E live \in GenLive, l \in CompareLlms : AnalyzeHandler(live, l)
    \/ CompareStart
    \/ \E i \in 1..MaxUrls, w \in RqWorlds("https://react.dev/learn") : CompareSettle(i, w)
    \/ \E l \in CompareLlms : CompareRespond(l)

SpecRoutes == InitRoutes /\ [][NextRoutes]_vars

\* the urls of the request that were scraped without error
RqValid == Len(ValidResources(rq.tasks, 1))

\* C19: the comparator makes its comparison chat, and answers with a
\* comparison, only when at least 2 of the supplied urls were scraped
\* without error; with fewer it answers 200 with success false, the message
\* "Not enough valid resources to compare" and no comparison, makes no
\* comparison chat, and does not fail.
C19_ComparisonNeedsTwoValid ==
    (rq.route = "compare" /\ rq.body.urlsGiven) =>
        /\ rq.calls.llm <= 1
        /\ rq.pc # "responded" => rq.calls.llm = 0
        /\ rq.pc = "responded" =>
              /\ (rq.calls.llm = 1 \/ rq.comparison) => RqValid >= 2
              /\ RqValid < 2 =>
                    /\ rq.status = 200
                    /\ ~rq.success
                    /\ rq.message = "Not enough valid resources to compare"
                    /\ ~rq.comparison
                    /\ rq.calls.llm = 0

C19_Witness ==
    /\ rq.route = "compare" /\ rq.pc = "responded"
    /\ Len(rq.body.urls) = 2
    /\ rq.tasks[1].value.error = None
    /\ rq.tasks[2].value.error # None
    /\ rq.body.urls[2] = "https://react.dev/learn"
    /\ rq.calls.summary = 1
    /\ rq.message = "Not enough valid resources to compare"

\* the request has an input the validation chains refuse
RqInvalid == ValidationErrors(rq.route, rq.body) # << >>

\* C20 (as claimed): a request with invalid input (empty topic, malformed
\* url, level or depth outside its enum, fewer than 2 or more than 5
\* comparison urls) is answered 400 before any search, scrape or LLM call:
\* no work starts for it and no result is produced.
C20_InvalidRejectedBeforeWork ==
    (rq.route # None /\ RqInvalid) =>
        /\ rq.calls = NoCalls
        /\ rq.tasks = << >>
        /\ rq.pc = "responded" => rq.status = 400

(***************************************************************************)
(* llmClient.js: extractJSON and its repair helpers, computed on the       *)
(* characters of the text.  The texts of the model are written with the    *)
(* space as only white space, digits 1-9, no backslash and no newline; a   *)
(* parsed value is kept as its canonical JSON text (no white space outside *)
(* string literals), so that two values are deep-equal exactly when their  *)
(* canonical texts are equal.  A scan over a text is a function of the     *)
(* index, defined for the one text s0.                                     *)
(***************************************************************************)
Ch(s, i) == IF i >= 1 /\ i <= Len(s) THEN SubSeq(s, i, i) ELSE ""

Digits == {"1", "2", "3", "4", "5", "6", "7", "8", "9"}

Letters ==
    {"a", "b", "c", "d", "e", "f", "g", "h", "i", "j", "k", "l", "m", "n", "o",
     "p", "q", "r", "s", "t", "u", "v", "w", "x", "y", "z", "F"}

\* [a-zA-Z0-9_$]
WordChars == Letters \cup Digits \cup {"_", "$"}

\* the first index from i0 on that holds no character of the set
\* (Len(s0) + 1 at the end)
SkipChars(s0, i0, set) ==
    LET f[s \in {s0}, i \in Nat] == IF Ch(s, i) \in set THEN f[s, i + 1] ELSE i
    IN  f[s0, i0]

\* \s*
SkipSpaces(s, i) == SkipChars(s, i, {" "})

\* the text has w at index i
StartsWith(s, i, w) == i + Len(w) - 1 <= Len(s) /\ SubSeq(s, i, i + Len(w) - 1) = w

\* String.prototype.indexOf(sub, from - 1) + 1: 0 when sub does not occur
IndexOf(s0, sub, from) ==
    LET f[s \in {s0}, i \in Nat] ==
          IF i + Len(sub) - 1 > Len(s) THEN 0
          ELSE IF StartsWith(s, i, sub) THEN i ELSE f[s, i + 1]
    IN  f[s0, from]

\* the first index from i0 on that holds a character of the set, 0 if none
IndexOfAny(s0, set, from) ==
    LET f[s \in {s0}, i \in Nat] ==
          IF i > Len(s) THEN 0 ELSE IF Ch(s, i) \in set THEN i ELSE f[s, i + 1]
    IN  f[s0, from]

CountOf(s0, c) ==
    LET f[s \in {s0}] == Cardinality({i \in 1..Len(s) : Ch(s, i) = c})
    IN  f[s0]

\* JSON.parse as a recogniser, by recursive descent: the index behind the
\* value, the rest of an array or the rest of an object that starts at
\* index i, or 0 when there is none
Recognise(s0) ==
    LET f[s \in {s0}, what \in {"value", "elements", "members"}, i0 \in Nat] ==
          LET i == SkipSpaces(s, i0)
              c == Ch(s, i)
              quote == IndexOfAny(s, {"\"", "\\"}, i + 1)
              colon == SkipSpaces(s, quote + 1)
              v == f[s, "value", IF what = "members" THEN colon + 1 ELSE i]
              j == SkipSpaces(s, v)
          IN  CASE what = "value" /\ c = "\"" ->
                     IF quote = 0 \/ Ch(s, quote) = "\\" THEN 0 ELSE quote + 1
                [] what = "value" /\ c \in Digits -> SkipChars(s, i, Digits)
                [] what = "value" /\ StartsWith(s, i, "null") -> i + 4
                [] what = "value" /\ StartsWith(s, i, "true") -> i + 4
                [] what = "value" /\ StartsWith(s, i, "false") -> i + 5
                [] what = "value" /\ c = "[" ->
                     IF Ch(s, SkipSpaces(s, i + 1)) = "]" THEN SkipSpaces(s, i + 1) + 1
                     ELSE f[s, "elements", i + 1]
                [] what = "value" /\ c = "{" ->
                     IF Ch(s, SkipSpaces(s, i + 1)) = "}" THEN SkipSpaces(s, i + 1) + 1
                     ELSE f[s, "members", i + 1]
                [] what = "elements" ->
                     IF v = 0 THEN 0
                     ELSE IF Ch(s, j) = "]" THEN j + 1
                     ELSE IF Ch(s, j) = "," THEN f[s, "elements", j + 1]
                     ELSE 0
                [] what = "members" ->
                     IF c # "\"" \/ quote = 0 \/ Ch(s, quote) = "\\" \/ Ch(s, colon) # ":"
                     THEN 0
                     ELSE IF v = 0 THEN 0
                     ELSE IF Ch(s, j) = "}" THEN j + 1
                     ELSE IF Ch(s, j) = "," THEN f[s, "members", j + 1]
                     ELSE 0
                [] OTHER -> 0
    IN  f[s0, "value", 1]

\* the text without the white space outside its string literals
Canonical(s0) ==
    LET f[s \in {s0}, i \in Nat, inString \in BOOLEAN] ==
          IF i > Len(s) THEN ""
          ELSE IF Ch(s, i) = " " /\ ~inString THEN f[s, i + 1, inString]
          ELSE Ch(s, i) \o f[s, i + 1, IF Ch(s, i) = "\"" THEN ~inString ELSE inString]
    IN  f[s0, 1, FALSE]

\* JSON.parse(s): the whole text is one value; a failure is a SyntaxError
JSONparse(s0) ==
    LET f[s \in {s0}, end \in Nat] ==
          IF end # 0 /\ SkipSpaces(s, end) = Len(s) + 1
          THEN [ok |-> TRUE, value |-> Canonical(s)]
          ELSE [ok |-> FALSE, value |-> ""]
    IN  f[s0, Recognise(s0)]

\* the backtick, which a TLA+ string cannot hold, is written ~ in the texts
Tick == "~"
Fence == "~~~"

\* text.match(/```(?:json)?([\s\S]*?)```/i)[1], "" without a match
FenceContent(text) ==
    LET f[s \in {text}, p \in Nat] ==
          LET a == p + 3
              b == IF a + 3 <= Len(s) /\ toLowerCase(SubSeq(s, a, a + 3)) = "json"
                   THEN a + 4 ELSE a
              q == IndexOf(s, Fence, b)
          IN  IF p = 0 \/ q = 0 THEN "" ELSE SubSeq(s, b, q - 1)
    IN  f[text, IndexOf(text, Fence, 1)]

\* text.match(/`([\s\S]*?)`/)[1], "" without a match
TickContent(text) ==
    LET f[s \in {text}, p \in Nat] ==
          LET q == IndexOf(s, Tick, p + 1)
          IN  IF p = 0 \/ q = 0 THEN "" ELSE SubSeq(s, p + 1, q - 1)
    IN  f[text, IndexOf(text, Tick, 1)]

\* lines 149-162: the content of the first code fence, else of the first
\* pair of backticks, else the text
jsonContent(text) ==
    LET f[fenced \in {FenceContent(text)}, ticked \in {TickContent(text)}] ==
          IF fenced # "" THEN trim(fenced) ELSE IF ticked # "" THEN trim(ticked) ELSE text
    IN  f[FenceContent(text), TickContent(text)]

\* replace(/,\s*([}\]])/g, '$1')
RemoveTrailingCommas(s0) ==
    LET f[s \in {s0}, i \in Nat] ==
          LET j == SkipSpaces(s, i + 1)
          IN  IF i > Len(s) THEN ""
              ELSE IF Ch(s, i) = "," /\ Ch(s, j) \in {"}", "]"}
              THEN Ch(s, j) \o f[s, j + 1]
              ELSE Ch(s, i) \o f[s, i + 1]
    IN  f[s0, 1]

\* replace(/\.\.\.+/g, '""')
RemoveEllipsis(s0) ==
    LET f[s \in {s0}, i \in Nat] ==
          IF i > Len(s) THEN ""
          ELSE IF StartsWith(s, i, "...") THEN "\"\"" \o f[s, SkipChars(s, i, {"."})]
          ELSE Ch(s, i) \o f[s, i + 1]
    IN  f[s0, 1]

\* replace(/([{,]\s*)([a-zA-Z0-9_$]+)\s*:/g, '$1"$2":')
QuoteKeys(s0) ==
    LET f[s \in {s0}, i \in Nat] ==
          LET j == SkipSpaces(s, i + 1)
              k == SkipChars(s, j, WordChars)
              l == SkipSpaces(s, k)
          IN  IF i > Len(s) THEN ""
              ELSE IF Ch(s, i) \in {"{", ","} /\ k > j /\ Ch(s, l) = ":"
              THEN SubSeq(s, i, j - 1) \o "\"" \o SubSeq(s, j, k - 1) \o "\":"
                   \o f[s, l + 1]
              ELSE Ch(s, i) \o f[s, i + 1]
    IN  f[s0, 1]

\* replace(/(?<!\\)'/g, '"')
DoubleQuotes(s0) ==
    LET f[s \in {s0}, i \in Nat] ==
          IF i > Len(s) THEN ""
          ELSE (IF Ch(s, i) = "'" /\ Ch(s, i - 1) # "\\" THEN "\"" ELSE Ch(s, i))
               \o f[s, i + 1]
    IN  f[s0, 1]

\* replace(/(\[\s*|,\s*)\s*,\s*([\]\}])/g, '$1$2')
RemoveLoneCommas(s0) ==
    LET f[s \in {s0}, i \in Nat] ==
          LET j == SkipSpaces(s, i + 1)
              k == SkipSpaces(s, j + 1)
          IN  IF i > Len(s) THEN ""
              ELSE IF Ch(s, i) \in {"[", ","} /\ Ch(s, j) = ","
                      /\ Ch(s, k) \in {"]", "}"}
              THEN SubSeq(s, i, j - 1) \o Ch(s, k) \o f[s, k + 1]
              ELSE Ch(s, i) \o f[s, i + 1]
    IN  f[s0, 1]

\* replace(/}\s*{/g, '}, {') with c = "}", o = "{"; replace(/]\s*\[/g,
\* '], [') with c = "]", o = "["
SeparateItems(s0, c, o) ==
    LET f[s \in {s0}, i \in Nat] ==
          LET j == SkipSpaces(s, i + 1)
          IN  IF i > Len(s) THEN ""
              ELSE IF Ch(s, i) = c /\ Ch(s, j) = o THEN c \o ", " \o o \o f[s, j + 1]
              ELSE Ch(s, i) \o f[s, i + 1]
    IN  f[s0, 1]

\* cleanupJSON lines 237-255: the replacements made before the array loop
CleanupPasses(text) ==
    SeparateItems(
        SeparateItems(
            RemoveLoneCommas(
                DoubleQuotes(QuoteKeys(RemoveEllipsis(RemoveTrailingCommas(text))))),
            "}", "{"),
        "]", "[")

NoMatch == [found |-> FALSE, first |-> 0, last |-> 0]

\* arrayRegex.exec(cleaned) with arrayRegex = /\[([^\[\]]*?)\]/g and its
\* lastIndex: the first "[" at or after lastIndex that is closed before
\* another bracket opens
ArrayMatch(cleaned, lastIndex) ==
    LET f[s \in {cleaned}, i \in Nat] ==
          LET open == IndexOf(s, "[", i)
              close == IndexOfAny(s, {"[", "]"}, open + 1)
          IN  IF open = 0 \/ close = 0 THEN NoMatch
              ELSE IF Ch(s, close) = "]"
              THEN [found |-> TRUE, first |-> open, last |-> close]
              ELSE f[s, close]
    IN  f[cleaned, lastIndex + 1]

Quotes == {"'", "\""}
AfterWord == {"{", "[", "'", "\"", "t", "f"}

\* replace(/(['"])\s+(['"])/g, '$1, $2')
SeparateStrings(s0) ==
    LET f[s \in {s0}, i \in Nat] ==
          LET j == SkipSpaces(s, i + 1)
          IN  IF i > Len(s) THEN ""
              ELSE IF Ch(s, i) \in Quotes /\ j > i + 1 /\ Ch(s, j) \in Quotes
              THEN Ch(s, i) \o ", " \o Ch(s, j) \o f[s, j + 1]
              ELSE Ch(s, i) \o f[s, i + 1]
    IN  f[s0, 1]

\* replace(/true\s+(?=[{['"tf])/g, 'true, ') with w = "true", and the same
\* for "false"
SeparateWord(s0, w) ==
    LET f[s \in {s0}, i \in Nat] ==
          LET j == SkipSpaces(s, i + Len(w))
          IN  IF i > Len(s) THEN ""
              ELSE IF StartsWith(s, i, w) /\ j > i + Len(w) /\ Ch(s, j) \in AfterWord
              THEN w \o ", " \o f[s, j]
              ELSE Ch(s, i) \o f[s, i + 1]
    IN  f[s0, 1]

\* replace(/(\d+)\s+(?=[{['"tf\d])/g, '$1, ')
SeparateNumbers(s0) ==
    LET f[s \in {s0}, i \in Nat] ==
          LET e == SkipChars(s, i, Digits)
              j == SkipSpaces(s, e)
          IN  IF i > Len(s) THEN ""
              ELSE IF e > i /\ j > e /\ Ch(s, j) \in AfterWord \cup Digits
              THEN SubSeq(s, i, e - 1) \o ", " \o f[s, j]
              ELSE Ch(s, i) \o f[s, i + 1]
    IN  f[s0, 1]

\* lines 264-268: fixedArrayContent
FixArrayContent(arrayContent) ==
    SeparateNumbers(
        SeparateWord(SeparateWord(SeparateStrings(arrayContent), "true"), "false"))

\* the replacement text of String.prototype.replace with a string pattern:
\* $$ is $, $& the matched text, $` the text before the match and $' the
\* text after it
Substitution(rep0, matched, before, after) ==
    LET f[rep \in {rep0}, i \in Nat] ==
          LET n == Ch(rep, i + 1)
          IN  IF i > Len(rep) THEN ""
              ELSE IF Ch(rep, i) = "$" /\ n = "$" THEN "$" \o f[rep, i + 2]
              ELSE IF Ch(rep, i) = "$" /\ n = "&" THEN matched \o f[rep, i + 2]
              ELSE IF Ch(rep, i) = "$" /\ n = Tick THEN before \o f[rep, i + 2]
              ELSE IF Ch(rep, i) = "$" /\ n = "'" THEN after \o f[rep, i + 2]
              ELSE Ch(rep, i) \o f[rep, i + 1]
    IN  f[rep0, 1]

\* s.replace(pattern, rep) with strings: the first occurrence is replaced
StringReplace(s0, pattern, rep) ==
    LET f[s \in {s0}, p \in Nat] ==
          LET before == SubSeq(s, 1, p - 1)
              after == SubSeq(s, p + Len(pattern), Len(s))
          IN  IF p = 0 THEN s
              ELSE before \o Substitution(rep, pattern, before, after) \o after
    IN  f[s0, IndexOf(s0, pattern, 1)]

\* lines 260-272, one pass of the while loop on a match m: the content
\* between the brackets, if not empty, is repaired and written back over
\* the first occurrence of the bracketed text
ArrayPass(cleaned, m) ==
    LET f[arrayContent \in {SubSeq(cleaned, m.first + 1, m.last - 1)}] ==
          IF arrayContent = "" THEN cleaned
          ELSE StringReplace(cleaned, "[" \o arrayContent \o "]",
                             "[" \o FixArrayContent(arrayContent) \o "]")
    IN  f[SubSeq(cleaned, m.first + 1, m.last - 1)]

\* value.trim().split(/\s+/): the words of a text
SplitWords(s0) ==
    LET f[s \in {s0}, i0 \in Nat] ==
          LET i == SkipSpaces(s, i0)
              e == IF IndexOf(s, " ", i) = 0 THEN Len(s) + 1 ELSE IndexOf(s, " ", i)
          IN  IF i > Len(s) THEN << >> ELSE <<SubSeq(s, i, e - 1)>> \o f[s, e]
    IN  f[s0, 1]

\* item.replace(/["']/g, '')
RemoveQuotes(s0) ==
    LET f[s \in {s0}, i \in Nat] ==
          IF i > Len(s) THEN ""
          ELSE (IF Ch(s, i) \in Quotes THEN "" ELSE Ch(s, i)) \o f[s, i + 1]
    IN  f[s0, 1]

\* items.map(item => `"${...}"`).join(', ')
JoinQuoted(items0) ==
    LET f[items \in {items0}, i \in Nat] ==
          IF i > Len(items) THEN ""
          ELSE "\"" \o RemoveQuotes(items[i]) \o "\""
               \o (IF i < Len(items) THEN ", " ELSE "") \o f[items, i + 1]
    IN  f[items0, 1]

\* deepCleanJSON lines 289-301, fixArrays: replace(/"([a-zA-Z0-9_$]+)"\s*:
\* \s*([^\[{][^,}\]]*?)(?=[,}])/g, ...): a value of several words, without
\* bracket or brace, becomes an array of strings
fixArrays(s0) ==
    LET f[s \in {s0}, i \in Nat] ==
          LET k == SkipChars(s, i + 1, WordChars)
              colon == SkipSpaces(s, k + 1)
              stop(v) == IndexOfAny(s, {",", "}", "]"}, v + 1)
              starts == {v \in (colon + 1)..SkipSpaces(s, colon + 1) :
                           /\ v <= Len(s)
                           /\ Ch(s, v) \notin {"[", "{"}
                           /\ stop(v) # 0
                           /\ Ch(s, stop(v)) # "]"}
              v0 == CHOOSE v \in starts : \A u \in starts : u <= v
              value == SubSeq(s, v0, stop(v0) - 1)
          IN  IF i > Len(s) THEN ""
              ELSE IF Ch(s, i) = "\"" /\ k > i + 1 /\ Ch(s, k) = "\""
                      /\ Ch(s, colon) = ":" /\ starts # {}
              THEN (IF Len(SplitWords(value)) > 1
                       /\ IndexOfAny(value, {"[", "{"}, 1) = 0
                    THEN "\"" \o SubSeq(s, i + 1, k - 1) \o "\": ["
                         \o JoinQuoted(SplitWords(value)) \o "]"
                    ELSE SubSeq(s, i, stop(v0) - 1))
                   \o f[s, stop(v0)]
              ELSE Ch(s, i) \o f[s, i + 1]
    IN  f[s0, 1]

Repeat(c, n0) ==
    LET f[n \in Int] == IF n <= 0 THEN "" ELSE c \o f[n - 1]
    IN  f[n0]

\* deepCleanJSON lines 306-336, balanceBrackets: missing closing braces,
\* then missing closing brackets, are added at the end; a text with a
\* closing brace or bracket too many is left as it is
balanceBrackets(str0) ==
    LET f[str \in {str0}] ==
          IF CountOf(str, "}") > CountOf(str, "{")
             \/ CountOf(str, "]") > CountOf(str, "[")
          THEN str
          ELSE str \o Repeat("}", CountOf(str, "{") - CountOf(str, "}"))
                   \o Repeat("]", CountOf(str, "[") - CountOf(str, "]"))
    IN  f[str0]

\* text.match(/{[\s\S]*?}/)[0], "" without a match
ObjectPattern(text) ==
    LET p == IndexOf(text, "{", 1)
        q == IndexOf(text, "}", p + 1)
    IN  IF p = 0 \/ q = 0 THEN "" ELSE SubSeq(text, p, q)

\* /(function|eval|setTimeout|setInterval|new\s+Function)/.test(s)
Unsafe(s) ==
    \/ \E w \in {"function", "eval", "setTimeout", "setInterval"} : includes(s, w)
    \/ \E i \in 1..Len(s) :
          /\ StartsWith(s, i, "new")
          /\ SkipSpaces(s, i + 3) > i + 3
          /\ StartsWith(s, SkipSpaces(s, i + 3), "Function")

\* /^\s*\{[\s\S]*\}\s*$/.test(s)
LooksLikeObject(s) ==
    /\ Len(trim(s)) >= 2
    /\ Ch(trim(s), 1) = "{"
    /\ Ch(trim(s), Len(trim(s))) = "}"

\* lines 209-212: safeJson
SafeJson(s) == RemoveTrailingCommas(DoubleQuotes(QuoteKeys(s)))

(***************************************************************************)
(* One call of extractJSON, method by method.  The array loop of           *)
(* cleanupJSON, which every repair method runs, is followed pass by pass.  *)
(***************************************************************************)
\* longest text the array loop is followed to
MaxCleanLen == 60

\* what the text is wrapped in: nothing, a fence with the json tag, a pair
\* of backticks, or a sentence before it
Wrapped(payload) ==
    {payload, "~~~json " \o payload \o " ~~~", Tick \o payload \o Tick,
     "Here: " \o payload}

\* well-formed JSON texts, among them strings that hold braces or backticks
JsonPayloads ==
    {"{\"a\": 1}", "[1, 2]", "\"x\"", "null", "true", "12", "{\"a\": \"{\"}",
     "{\"a\": [\"}\", true]}", "\"see ~1~ here\"", "{\"a\": \"~{}~\"}",
     "{\"c\": \"run ~npm i~ now\"}", "[\"~a~\"]", "\"a~b\""}

\* texts that are not JSON, which the repair methods do or do not mend
BrokenPayloads ==
    {"{\"a\": 1,}", "{a: 1}", "{'a': [1 2]}", "{\"a\": x y}", "{\"a\": 1",
     "[[1, 2", "[\"a\" \"b\"]", "{'a': 'x...'}", "{'a': 'eval...'}", "Sorry",
     "{\"a\": [1}", "[1 2 3 $&] [1 2 3 $&]", " "}

ParseTexts ==
    {""} \cup UNION {Wrapped(p) : p \in JsonPayloads \cup BrokenPayloads}

Returns(value, tier) ==
    [px EXCEPT !.pc = "returned", !.out = [value |-> value, tier |-> tier]]

ReturnsNull == Returns("null", "none")

\* cleanupJSON(text) up to its array loop; an empty text is returned as it is
StartsCleanup(tier, text) ==
    [px EXCEPT !.pc = "loop", !.tier = tier, !.lastIndex = 0,
               !.cleaned = IF text = "" THEN "" ELSE CleanupPasses(text)]

\* lines 143-162
ExtractStart ==
    /\ px.pc = "called"
    /\ px' = IF px.text = "" THEN ReturnsNull
             ELSE [px EXCEPT !.pc = "direct", !.content = jsonContent(px.text)]
    /\ UNCHANGED <<srch, scrapes, genVars, rank, storeVars, rq, lateVars>>

\* lines 167-172, method 1, and the call of cleanupJSON of method 2
DirectParse ==
    /\ px.pc = "direct"
    /\ px' = IF JSONparse(px.content).ok
             THEN Returns(JSONparse(px.content).value, "direct")
             ELSE StartsCleanup("cleanup", px.content)
    /\ UNCHANGED <<srch, scrapes, genVars, rank, storeVars, rq, lateVars>>

\* lines 258-271: one pass of the while loop
ArrayLoopPass ==
    /\ px.pc = "loop"
    /\ Len(px.cleaned) <= MaxCleanLen
    /\ LET m == ArrayMatch(px.cleaned, px.lastIndex)
       IN  /\ m.found
           /\ px' = [px EXCEPT !.cleaned = ArrayPass(px.cleaned, m),
                               !.lastIndex = m.last]
    /\ UNCHANGED <<srch, scrapes, genVars, rank, storeVars, rq, lateVars>>

\* the loop of the cleanupJSON at work has found no further array
LoopDone(tier) ==
    /\ px.pc = "loop"
    /\ px.tier = tier
    /\ ~ArrayMatch(px.cleaned, px.lastIndex).found

\* deepCleanJSON after its cleanupJSON
DeepCleaned == balanceBrackets(fixArrays(px.cleaned))

\* lines 175-180, method 2, and the call of deepCleanJSON of method 3
CleanupParse ==
    /\ LoopDone("cleanup")
    /\ px' = IF JSONparse(px.cleaned).ok
             THEN Returns(JSONparse(px.cleaned).value, "cleanup")
             ELSE StartsCleanup("deep", px.content)
    /\ UNCHANGED <<srch, scrapes, genVars, rank, storeVars, rq, lateVars>>

\* lines 183-199, method 3, and the pattern match and the call of
\* deepCleanJSON of method 4
DeepParse ==
    /\ LoopDone("deep")
    /\ px' = IF JSONparse(DeepCleaned).ok
             THEN Returns(JSONparse(DeepCleaned).value, "deep")
             ELSE IF ObjectPattern(px.text) # ""
             THEN StartsCleanup("pattern", ObjectPattern(px.text))
             ELSE [px EXCEPT !.pc = "eval"]
    /\ UNCHANGED <<srch, scrapes, genVars, rank, storeVars, rq, lateVars>>

\* lines 196-200, method 4
PatternParse ==
    /\ LoopDone("pattern")
    /\ px' = IF JSONparse(DeepCleaned).ok
             THEN Returns(JSONparse(DeepCleaned).value, "pattern")
             ELSE [px EXCEPT !.pc = "eval"]
    /\ UNCHANGED <<srch, scrapes, genVars, rank, storeVars, rq, lateVars>>

\* lines 203-219, method 5 and the final return null
SafeEvalParse ==
    /\ px.pc = "eval"
    /\ px' = IF /\ LooksLikeObject(px.content)
                /\ ~Unsafe(px.content)
                /\ JSONparse(SafeJson(px.content)).ok
             THEN Returns(JSONparse(SafeJson(px.content)).value, "eval")
             ELSE ReturnsNull
    /\ UNCHANGED <<srch, scrapes, genVars, rank, storeVars, rq, lateVars>>

InitParse ==
    /\ srch = SrchIdle
    /\ scrapes = << >>
    /\ GenIdle
    /\ rank = RankIdle
    /\ StoreIdle
    /\ rq = RqIdle
    /\ LateIdle
    /\ \E t \in ParseTexts : px = [PxIdle EXCEPT !.text = t, !.pc = "called"]

NextParse ==
    \/ ExtractStart
    \/ DirectParse
    \/ ArrayLoopPass
    \/ CleanupParse
    \/ DeepParse
    \/ PatternParse
    \/ SafeEvalParse

SpecParse == InitParse /\ [][NextParse]_vars

\* the call is not suspended: it runs on until it returns
SpecParseLive == SpecParse /\ WF_vars(NextParse)

\* C21: for every text that is well-formed JSON (strings that hold
\* backticks or braces among them), extractJSON returns the value
\* JSON.parse gives for the text, and returns it from the direct parse.
C21_ValidJsonParsedDirectly ==
    (px.pc = "returned" /\ JSONparse(px.text).ok) =>
        px.out = [value |-> JSONparse(px.text).value, tier |-> "direct"]

TaskKept(i) ==
    /\ web.tasks[i].settled
    /\ web.tasks[i].value.outcome = "resolved"
    /\ Len(web.tasks[i].value.summary) > MinSummaryLen

\* the scrape of task i met no error
TaskSucceeded(i) == TaskKept(i) /\ web.tasks[i].value.error = None

TaskFailed(i) == web.tasks[i].settled /\ web.tasks[i].value.error # None

MaxOrderLen == 4

\* search results as performWebSearch returns them for "Learn React" when
\* the provider fails and when it answers, and a response in which the
\* provider lists one page under two titles (nothing in performWebSearch
\* removes a repeated URL)
OrderSearches ==
    {sr \in {performWebSearch("Learn React", SearchLimit, live).results :
                live \in GenLive} : Len(sr) <= MaxOrderLen}
    \cup {<<Entry("Frontend Masters Learning Paths", "https://frontendmasters.com/learn/",
                  "DuckDuckGo", 900, "live"),
            Entry("Learn", "https://frontendmasters.com/learn/", "Wikipedia", 700, "live"),
            Entry("Topic", "https://live.example/topic3", "Wikipedia", 700, "live")>>}

\* one outcome per scraped result, the same for the results of one URL
OrderWorlds(searchResults) ==
    {w \in [1..Len(slice(searchResults, 0, ScrapeTop)) -> GenWorlds] :
        \A i, j \in DOMAIN w :
            searchResults[i].url = searchResults[j].url => w[i] = w[j]}

\* the results in the order of the scrapes' completion
allSettledByCompletion(tasks, arrived) ==
    [k \in 1..Len(arrived) |-> tasks[arrived[k]]]

\* line 325: Promise.allSettled resolves to the results in the order of the
\* promises it was given
allSettled(tasks, arrived) == tasks

\* one of the scrapes issued at lines 321-323 completes
OrderSettle(i) ==
    /\ ord.pc = "scraping"
    /\ i \in 1..Len(ord.tasks)
    /\ ~ord.tasks[i].settled
    /\ ord' = [ord EXCEPT
                  !.tasks[i] =
                      [settled |-> TRUE, world |-> ord.worlds[i],
                       value |-> scrapeAndSummarize(ord.searchResults[i].url,
                                                    ord.searchResults[i].title,
                                                    ord.worlds[i].fetch,
                                                    ord.worlds[i].page,
                                                    ord.worlds[i].llm)],
                  !.arrived = Append(@, i)]
    /\ UNCHANGED <<srch, scrapes, genVars, rank, storeVars, rq, px, bank>>

\* lines 325-334 and 347: all have settled; filter, rank, keep the sources
OrderRank ==
    /\ ord.pc = "scraping"
    /\ \A i \in 1..Len(ord.tasks) : ord.tasks[i].settled
    /\ LET scrapedContent == allSettled(ord.tasks, ord.arrived)
           rankedResources == rankResources(ord.searchResults,
                                            ValidContent(scrapedContent, 1))
       IN  ord' = [ord EXCEPT !.pc = "ranked",
                              !.ranked = rankedResources,
                              !.sources = slice(rankedResources, 0, SourcesKept)]
    /\ UNCHANGED <<srch, scrapes, genVars, rank, storeVars, rq, px, bank>>

InitOrder ==
    /\ srch = SrchIdle
    /\ scrapes = << >>
    /\ GenIdle
    /\ rank = RankIdle
    /\ StoreIdle
    /\ rq = RqIdle
    /\ px = PxIdle
    /\ bank = BankIdle
    /\ \E sr \in OrderSearches : \E w \in OrderWorlds(sr) :
          ord = [OrdIdle EXCEPT !.pc = "scraping", !.searchResults = sr,
                                !.worlds = w,
                                !.tasks = [i \in DOMAIN w |-> PendingTask]]

NextOrder ==
    \/ \E i \in 1..ScrapeTop : OrderSettle(i)
    \/ OrderRank

SpecOrder == InitOrder /\ [][NextOrder]_vars

\* the ranked list of the run in which the scrapes complete in the order
\* they were issued
RankedInIssueOrder ==
    rankResources(ord.searchResults,
                  ValidContent([i \in 1..Len(ord.worlds) |->
                                   [settled |-> TRUE, world |-> ord.worlds[i],
                                    value |-> scrapeAndSummarize(
                                                  ord.searchResults[i].url,
                                                  ord.searchResults[i].title,
                                                  ord.worlds[i].fetch,
                                                  ord.worlds[i].page,
                                                  ord.worlds[i].llm)]], 1))

\* C24: for fixed search results and a fixed outcome of the scrape of each
\* URL, whatever the order in which the scrapes complete, the ranked list
\* and the sources returned are those of the run in which they complete in
\* the order of issue: the same for every completion order.
C24_RankingIgnoresCompletionOrder ==
    ord.pc = "ranked" =>
        /\ ord.ranked = RankedInIssueOrder
        /\ ord.sources = slice(RankedInIssueOrder, 0, SourcesKept)

\* a run ranked after its scrapes completed in another order than issued,
\* two of them for the same URL, with a failure and a success among them
C24_Witness ==
    /\ ord.pc = "ranked"
    /\ Len(ord.arrived) = 3
    /\ ord.arrived[1] = 3 /\ ord.arrived[2] = 2
    /\ ord.searchResults[1].url = ord.searchResults[2].url
    /\ ord.tasks[1].value.error # None
    /\ ord.tasks[3].value.error = None
    /\ Len(ord.sources) = 3

\* the ranking has been made from the settled scrapes
RankedFromScrapes == pc \in {"returned", "done", "fallback", "basic"} /\ res.threw # "search"

\* C25: in every run scrapeAndSummarize is invoked once for each of the
\* first 5 search results and for no other; every record handed to
\* rankResources is the record of one of those results and has a summary
\* longer than 20 characters, and so has every scrapedContent among the
\* sources returned.
C25_OnlyTopFiveNonTrivial ==
    /\ Len(web.tasks) <= ScrapeTop
    /\ Len(web.tasks) <= Len(web.searchResults)
    /\ \A i \in 1..Len(web.tasks) :
          web.tasks[i].settled =>
              web.tasks[i].value.url = web.searchResults[i].url
    /\ RankedFromScrapes =>
          LET passed == ValidContent(web.tasks, 1)
          IN  \A k \in 1..Len(passed) :
                  /\ Len(passed[k].summary) > MinSummaryLen
                  /\ \E i \in 1..ScrapeTop :
                        /\ i <= Len(web.searchResults)
                        /\ passed[k].url = web.searchResults[i].url
                        /\ passed[k] = web.tasks[i].value
    /\ (pc \in {"returned", "done"} /\ res.outcome = "resolved") =>
          \A k \in 1..Len(res.result.sources) :
              LET c == res.result.sources[k].scrapedContent
              IN  c # NoScrape =>
                      /\ Len(c.summary) > MinSummaryLen
                      /\ \E i \in 1..ScrapeTop :
                            /\ i <= Len(web.searchResults)
                            /\ c = web.tasks[i].value

\* a run with 7 search results: 5 scrapes, one of them with a summary too
\* short to keep, and the sixth result returned without scraped content
C25_Witness ==
    /\ pc = "returned"
    /\ res.outcome = "resolved"
    /\ res.result.methodology = "web-enhanced-llm"
    /\ Len(web.searchResults) = 7
    /\ Len(web.tasks) = ScrapeTop
    /\ web.tasks[2].value.error = None
    /\ Len(web.tasks[2].value.summary) <= MinSummaryLen
    /\ Len(web.tasks[1].value.summary) > MinSummaryLen
    /\ \E k \in 1..Len(res.result.sources) :
          /\ res.result.sources[k].url = web.searchResults[6].url
          /\ res.result.sources[k].scrapedContent = NoScrape
    /\ \E k \in 1..Len(res.result.sources) :
          res.result.sources[k].scrapedContent = web.tasks[1].value

\* C26 (as claimed): a search result whose scrape failed is ranked as if it
\* had no scraped content: whatever the length of its title, its
\* qualityScore is min(1, relevanceScore + trusted-domain boost), without
\* the word-count, heading and summary-length boosts.
C26_FailedScrapeUnboosted ==
    (pc \in {"returned", "done"} /\ res.outcome = "resolved"
     /\ res.result.methodology = "web-enhanced-llm") =>
        \A i \in 1..Len(web.tasks) :
            TaskFailed(i) =>
                \A k \in 1..Len(res.result.sources) :
                    res.result.sources[k].url = web.searchResults[i].url =>
                        res.result.sources[k].qualityScore
                            = QualityScore(web.searchResults[i], NoScrape)

\* generateRoadmapWithLLM(userId, true) has ended, for a user with a skill,
\* after its research-agent path failed: generateComprehensiveRoadmap
\* rejected, or the upsert of lines 47-58 failed
ResearchPathFailed ==
    /\ pc = "done"
    /\ req.caller = "service" /\ req.useResearchAgent /\ req.topic # ""
    /\ \/ res.outcome = "rejected"
       \/ res.outcome = "resolved" /\ svc.dbErrors >= 1

\* C27 (as claimed): whenever the research-agent path of
\* generateRoadmapWithLLM(userId, true) fails, the run goes on with the
\* basic generation, so that an error reaching the caller is the basic
\* generation's, and the roadmap the run persists is tagged generatedWith
\* 'basic-llm'.
C27_FallsBackToBasicTagged ==
    ResearchPathFailed =>
        /\ chats.basic # LlmUnused
        /\ svc.outcome = "resolved" =>
              /\ store.exists
              /\ store.metadata = "basic-llm"

MaxUpdates == 3
MaxInFlight == 2

BankUsers == {"u1", "u2"}
BankTopics == {"Hooks", "State"}

\* a score is a number, NaN, or a value that is no number
Number(n) == [kind |-> "number", n |-> n]
NaN == [kind |-> "NaN", n |-> 0]
NotANumber == [kind |-> "string", n |-> 0]
Scores == {Number(n) : n \in {-5, 59, 60, 85, 95, 1000}} \cup {NaN, NotANumber}

NewConceptLevel == 50
MinStrength == 0
MaxStrength == 100

\* lines 100-106; every comparison with NaN is false
calculateDeltaFromScore(score) ==
    IF score.kind \notin {"number", "NaN"} THEN 0
    ELSE IF score.kind = "number" /\ score.n >= 90 THEN 12
    ELSE IF score.kind = "number" /\ score.n >= 80 THEN 8
    ELSE IF score.kind = "number" /\ score.n >= 60 THEN 4
    ELSE -10

\* a clamp from above only
ClampBelowMax(x) == IF x > MaxStrength THEN MaxStrength ELSE x

\* lines 120 and 122: Math.max(0, Math.min(100, x))
Clamp(x) ==
    IF x > MaxStrength THEN MaxStrength
    ELSE IF x < MinStrength THEN MinStrength ELSE x

NoBank == [exists |-> FALSE, concepts |-> << >>]

\* the bank of a user before the calls followed: none, or what four
\* scores below 60, or four of 90 and more, for one topic have left
EarlierBanks ==
    {NoBank,
     [exists |-> TRUE, concepts |-> <<[topic |-> "Hooks", strengthLevel |-> 10]>>],
     [exists |-> TRUE, concepts |-> <<[topic |-> "Hooks", strengthLevel |-> 98]>>]}

\* bank.concepts.find((c) => c.topic === topic): its index, 0 when none
FindConcept(concepts, topic) ==
    IF \E i \in 1..Len(concepts) : concepts[i].topic = topic
    THEN CHOOSE i \in 1..Len(concepts) :
            /\ concepts[i].topic = topic
            /\ \A j \in 1..(i - 1) : concepts[j].topic # topic
    ELSE 0

\* the calls that have loaded the bank and not yet saved it
InFlight == 1..Len(bank.calls)

\* lines 108-116: the delta is computed; for delta 0 the call returns null;
\* else the bank is loaded, and created empty when the user has none
UpdateStart(userId, topic, score) ==
    /\ bank.made < MaxUpdates
    /\ Cardinality(InFlight) < MaxInFlight
    /\ LET delta == calculateDeltaFromScore(score)
           doc == IF bank.docs[userId].exists THEN bank.docs[userId]
                  ELSE [exists |-> TRUE, concepts |-> << >>]
       IN  IF delta = 0
           THEN bank' = [bank EXCEPT !.made = @ + 1]
           ELSE bank' = [bank EXCEPT
                            !.made = @ + 1,
                            !.docs[userId] = doc,
                            !.calls = Append(@, [userId |-> userId, topic |-> topic,
                                                 delta |-> delta,
                                                 concepts |-> doc.concepts])]
    /\ UNCHANGED <<srch, scrapes, genVars, rank, storeVars, rq, px, ord>>

\* lines 118-125: the concept found in the loaded bank gets its new level,
\* or a new concept is pushed, and bank.save() writes that change
UpdateSave(k) ==
    /\ k \in InFlight
    /\ LET c == bank.calls[k]
           i == FindConcept(c.concepts, c.topic)
           raw == IF i > 0 THEN c.concepts[i].strengthLevel + c.delta
                  ELSE NewConceptLevel + c.delta
           concept == [topic |-> c.topic, strengthLevel |-> Clamp(raw)]
       IN  bank' = [bank EXCEPT
                       !.docs[c.userId].concepts =
                           IF i > 0 THEN [@ EXCEPT ![i] = concept]
                           ELSE Append(@, concept),
                       !.calls = [j \in 1..(Len(@) - 1) |->
                                     IF j < k THEN @[j] ELSE @[j + 1]],
                       !.last = [saved |-> TRUE, found |-> i > 0, delta |-> c.delta,
                                 clamped |-> raw # concept.strengthLevel,
                                 fresh |-> IF i > 0 THEN 0
                                           ELSE concept.strengthLevel]]
    /\ UNCHANGED <<srch, scrapes, genVars, rank, storeVars, rq, px, ord>>

InitBank ==
    /\ srch = SrchIdle
    /\ scrapes = << >>
    /\ GenIdle
    /\ rank = RankIdle
    /\ StoreIdle
    /\ rq = RqIdle
    /\ px = PxIdle
    /\ ord = OrdIdle
    /\ \E b \in EarlierBanks :
          bank = [docs |-> [u \in BankUsers |-> IF u = "u1" THEN b ELSE NoBank],
                  calls |-> << >>, made |-> 0, last |-> NoUpdate]

NextBank ==
    \/ \E u \in BankUsers, t \in BankTopics, sc \in Scores : UpdateStart(u, t, sc)
    \/ \E k \in 1..MaxInFlight : UpdateSave(k)

SpecBank == InitBank /\ [][NextBank]_vars

\* C28: after any sequence of updateMemoryFromScore calls, overlapping
\* ones included, with any scores, the strengthLevel of every concept of
\* every user's bank is within 0..100; and a topic that the loaded bank
\* did not hold starts at 50 plus the delta of the score, clamped to
\* 0..100.
C28_StrengthWithinRange ==
    /\ \A u \in BankUsers :
          \A i \in 1..Len(bank.docs[u].concepts) :
              /\ bank.docs[u].concepts[i].strengthLevel >= MinStrength
              /\ bank.docs[u].concepts[i].strengthLevel <= MaxStrength
    /\ (bank.last.saved /\ ~bank.last.found) =>
          /\ bank.last.delta \in {12, 8, 4, -10}
          /\ bank.last.fresh = NewConceptLevel + bank.last.delta
          /\ \E u \in BankUsers :
                \E i \in 1..Len(bank.docs[u].concepts) :
                    bank.docs[u].concepts[i].strengthLevel = bank.last.fresh

\* a topic at level 10 after two more scores below 60: the level computed
\* is below 0 and the level stored is 0, and the other user's new topic
\* stands at 50 + 12
C28_Witness ==
    /\ bank.last.found
    /\ bank.last.clamped
    /\ bank.last.delta = -10
    /\ bank.docs["u1"].concepts = <<[topic |-> "Hooks", strengthLevel |-> 0]>>
    /\ bank.docs["u2"].concepts = <<[topic |-> "Hooks", strengthLevel |-> 62]>>

\* C30 (as claimed): when a regeneration and updateRoadmapForWeakAreas for
\* the same user interleave and both write, the roadmap stored in the end
\* is that of one of the two serial orders: the regenerated steps (update
\* first), or the review step before the shifted regenerated steps
\* (regeneration first); never the steps read before the regeneration with
\* the review step in front.
C30_SerialOutcome ==
    \A p, q \in 1..MaxRuns :
        (/\ runs[p].kind = "adaptive" /\ runs[p].pc = "done" /\ runs[p].writes = 1
         /\ Generation(q) /\ runs[q].pc = "done" /\ runs[q].writes = 1
         /\ \A o \in 1..MaxRuns : o \in {p, q})
            => \/ db[1].steps = runs[q].steps
               \/ /\ db[1].steps = runs[p].steps
                  /\ runs[p].steps = <<runs[p].steps[1]>> \o Shifted(runs[q].steps)

====
